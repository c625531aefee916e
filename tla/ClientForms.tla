---------------------------- MODULE ClientForms ----------------------------
(***************************************************************************)
(* What the client's forms let through and what the API takes.             *)
(*                                                                         *)
(* A field is abstracted to the class of the value typed in it; a form is  *)
(* a function from its fields to the classes that can be sent: what the    *)
(* inputs allow (maxLength, digits only) and the page's validateForm does  *)
(* not stop.  The request objects of the API are written the same way, so  *)
(* the two can be compared field by field.                                 *)
(***************************************************************************)
EXTENDS Naturals

\* "empty" no text, "blank" nothing but spaces, "zero" the text 0, "ok" a value of the
\* right shape, "odd" one of the wrong shape, "wide" a text within the characters of
\* its input and beyond the bytes of its column, "long" a number of six digits.

(***************************************************************************)
(* The forms of the administration pages.  An input counts the characters  *)
(* of a text (maxLength); validateForm refuses a required one that is      *)
(* blank; some forms keep their button disabled while a text is empty.     *)
(***************************************************************************)
Required == {"zero", "ok", "wide"}
NonEmpty == Required \cup {"blank"}       \* spaces will do
Optional == NonEmpty \cup {"empty"}
Choice   == {"ok"}                        \* picked from a list, required
Digits   == {"ok", "zero"}                \* a required number
Password == {"zero", "ok", "odd"}         \* not blank; the API sets no limit to it
Email    == {"ok", "odd", "wide"}         \* ends with @ucr.ac.cr

AreaFormModal        == [name |-> Required, description |-> NonEmpty]
LicenseTypeFormModal == [name |-> Required]
DepartmentFormModal  == [name |-> Required, description |-> NonEmpty, area_id |-> Choice]
SectionFormModal     == [name |-> Required, description |-> NonEmpty, area_id |-> Choice]
UnitFormModal        == [name |-> Required, description |-> NonEmpty, assignment |-> Choice]
JobFormModal         == [name |-> Required, description |-> Optional,
                         code |-> Digits \cup {"long"}, job_class_id |-> Choice]
JobClassFormModal    == [name |-> Required, description |-> Optional,
                         code |-> Digits \cup {"long"}]
FunctionFormModal    == [name |-> Required, description |-> Optional,
                         job_id |-> Choice, expected_time |-> Digits \cup {"empty"}]
JobPositionFormModal == [number |-> Digits, description |-> Optional, job_id |-> Choice,
                         user_id |-> Choice, job_shift |-> Choice, parent |-> Choice]
\* The form sends a user without a second family name.
UserFormModal_OneFamilyName ==
    [first_name |-> Required, second_name |-> Optional, first_last_name |-> Required,
     second_last_name |-> Optional, email |-> Email, role |-> Choice, password |-> Password]

UserFormModal        == [first_name |-> Required, second_name |-> Optional,
                         first_last_name |-> Required, second_last_name |-> Required,
                         email |-> Email, role |-> Choice, password |-> Password]

(***************************************************************************)
(* The request objects of the API, which count the bytes of a text         *)
(* (strlen).  PHP's empty() refuses the text 0 and takes spaces; trim()    *)
(* compared with no text does the opposite.                                *)
(***************************************************************************)
NotEmpty   == {"blank", "ok"}
NotBlank   == {"zero", "ok"}
UpToColumn == {"empty", "blank", "zero", "ok"}

AreaRequestDTO       == [name |-> NotEmpty, description |-> UpToColumn]
CreateLicenseTypeDTO == [name |-> NotBlank]
CreateDepartmentDTO  == [name |-> NotEmpty, description |-> UpToColumn, area_id |-> NotEmpty]
CreateSectionDTO     == [name |-> NotEmpty, description |-> UpToColumn, area_id |-> NotEmpty]
CreateUnitDTO        == [name |-> NotEmpty, description |-> UpToColumn, assignment |-> {"ok"}]
CreateJobDTO         == [name |-> NotEmpty, description |-> UpToColumn,
                         code |-> Digits \cup {"long"}, job_class_id |-> NotEmpty]
\* A code is above zero and has at most five digits.
CreateJobClassDTO    == [name |-> NotEmpty, description |-> UpToColumn, code |-> {"ok"}]
CreateOfficialFunctionDTO ==
    [name |-> NotBlank, description |-> UpToColumn,
     job_id |-> NotBlank, expected_time |-> UpToColumn]
CreateJobPositionDTO == [number |-> NotBlank, description |-> UpToColumn, job_id |-> NotBlank,
                         user_id |-> NotBlank, job_shift |-> {"ok"}, parent |-> {"ok"}]
\* EmailValidator and PasswordValidator look at the shape too.
RegisterUserDTO      == [first_name |-> NotEmpty, second_name |-> UpToColumn,
                         first_last_name |-> NotEmpty, second_last_name |-> NotEmpty,
                         email |-> {"ok"}, role |-> {"ok"}, password |-> {"ok"}]

(***************************************************************************)
(* Where they disagree.                                                    *)
(***************************************************************************)
Forms == [area |-> AreaFormModal, licenseType |-> LicenseTypeFormModal,
          department |-> DepartmentFormModal, section |-> SectionFormModal,
          unit |-> UnitFormModal, job |-> JobFormModal, jobClass |-> JobClassFormModal,
          function |-> FunctionFormModal, jobPosition |-> JobPositionFormModal,
          user |-> UserFormModal]

Requests == [area |-> AreaRequestDTO, licenseType |-> CreateLicenseTypeDTO,
             department |-> CreateDepartmentDTO, section |-> CreateSectionDTO,
             unit |-> CreateUnitDTO, job |-> CreateJobDTO, jobClass |-> CreateJobClassDTO,
             function |-> CreateOfficialFunctionDTO, jobPosition |-> CreateJobPositionDTO,
             user |-> RegisterUserDTO]

FormFields == UNION { {f} \X (DOMAIN Forms[f]) : f \in DOMAIN Forms }

\* Form, field and class: what the form sends and the API answers with a validation
\* error.
FormGaps ==
    UNION { { <<x[1], x[2], c>> : c \in Forms[x[1]][x[2]] \ Requests[x[1]][x[2]] } :
            x \in FormFields }

Named     == {"area", "department", "section", "unit", "job", "jobClass"}
Described == Named \cup {"function", "jobPosition"}
UserNames == {"first_name", "first_last_name", "second_last_name"}

\* The ones that are known: the name 0; texts with characters of two bytes or more; weak
\* passwords; addresses that only end as they should; codes of job classes.
KnownGaps ==
       {<<f, "name", "zero">> : f \in Named}
  \cup {<<f, "name", "wide">> : f \in Named \cup {"licenseType", "function"}}
  \cup {<<f, "description", "wide">> : f \in Described}
  \cup {<<"user", n, c>> : n \in UserNames, c \in {"zero", "wide"}}
  \cup {<<"user", "second_name", "wide">>}
  \cup {<<"user", "email", c>> : c \in {"odd", "wide"}}
  \cup {<<"user", "password", c>> : c \in {"zero", "odd"}}
  \cup {<<"jobClass", "code", c>> : c \in {"zero", "long"}}

(***************************************************************************)
(* A plaza hangs from exactly one parent; the form keeps it as a type and  *)
(* an id, read from the first column that is filled and written back to    *)
(* the column of that type.                                                *)
(***************************************************************************)
ParentTypes == <<"area", "department", "section", "unit">>
NoParent    == "-"

ParentOf(plaza) ==
    LET filled == {i \in 1..4 : plaza[ParentTypes[i]] /= NoParent}
        first  == CHOOSE i \in filled : \A j \in filled : i <= j
    IN  IF filled = {} THEN <<"", NoParent>>
        ELSE <<ParentTypes[first], plaza[ParentTypes[first]]>>

ParentPayload(parent) == [t \in {parent[1]} |-> parent[2]]

\* A plaza that is opened and saved again stays under the parent it has.
ParentKept ==
    \A i \in 1..4 :
        LET plaza == [t \in {ParentTypes[j] : j \in 1..4} |->
                         IF t = ParentTypes[i] THEN "ok" ELSE NoParent]
        IN  ParentPayload(ParentOf(plaza)) = [t \in {ParentTypes[i]} |-> "ok"]

=============================================================================

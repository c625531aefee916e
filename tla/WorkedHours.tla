---------------------------- MODULE WorkedHours ----------------------------
(***************************************************************************)
(* The hours of a declaration, which the client computes in four places:   *)
(* the weekly total of the functions page, the total and the shift of the  *)
(* last page, of the details and of the CSV file, and the check of the     *)
(* shift when a declaration is created.  Minutes in 1/52 of a week and     *)
(* hundredths of an hour keep the numbers whole; the error of the floating *)
(* point, which can only turn a comparison of equals, is left out.         *)
(***************************************************************************)
EXTENDS Integers, Sequences

Frequencies == {"Diario", "Semanal", "Quincenal", "Mensual", "Trimestral", "Semestral"}
Durations == {0, 10, 30, 2380}              \* bound: minutes of a function, license or rest
ShiftTimes == (0..23) \X {0, 30}            \* bound: hours and minutes of the shift

Reported == [frequency : Frequencies, durationMinutes : Durations]

\* The reduce() of the totals: what has been added up after each element.
PartialSums(numbers) ==
    LET sums[i \in 0 .. Len(numbers)] == IF i = 0 THEN 0 ELSE sums[i - 1] + numbers[i]
    IN  sums
SumOf(numbers) == PartialSums(numbers)[Len(numbers)]

\* Every two weeks is taken for twice a week.
multiplier_TwiceAWeek(frequency) ==
    CASE frequency = "Diario"    -> 5 * 52
      [] frequency = "Quincenal" -> 2 * 52
      [] frequency = "Mensual"   -> 13
      [] OTHER                   -> 52

\* declarationExport.ts: times a week of each frequency, in 1/52; what is not named
\* counts once a week.  The last name is none of Frequencies.
multiplier(frequency) ==
    CASE frequency = "Diario"    -> 5 * 52
      [] frequency = "Semanal"   -> 52
      [] frequency = "Quincenal" -> 26
      [] frequency = "Mensual"   -> 13
      [] frequency = "Anual"     -> 1
      [] OTHER                   -> 52

\* Math.round(hours * 100) / 100: the nearest hundredth of an hour, which is 31.2 of
\* the minutes in 1/52 of a week, and the upper of two as near.
Hundredths(weekly) == (10 * weekly + 156) \div 312

calcTotalDeclaredHours(jobFunctions) ==
    Hundredths(SumOf([i \in DOMAIN jobFunctions |->
        jobFunctions[i].durationMinutes * multiplier(jobFunctions[i].frequency)]))

sumDurationsInHours(entries) == Hundredths(52 * SumOf(entries))

\* Minutes in a week of five days; a shift that ends before it starts crosses midnight.
calcWeeklyShiftHours(start, end) ==
    LET minutes == (end[1] * 60 + end[2]) - (start[1] * 60 + start[2])
    IN  5 * (IF minutes < 0 THEN minutes + 24 * 60 ELSE minutes)

\* DeclarationFunctions.tsx: the same of one report, and the total it shows.
FREQUENCY_PER_WEEK ==
    [Diario |-> 5 * 52, Semanal |-> 52, Quincenal |-> 26, Mensual |-> 13,
     Trimestral |-> 4, Semestral |-> 2]

weeklyMinutes(report) == report.durationMinutes * FREQUENCY_PER_WEEK[report.frequency]

totalSemanalMin(reports) == SumOf([i \in DOMAIN reports |-> weeklyMinutes(reports[i])])

\* EmployeeFormPage.tsx: the hours a shift of each kind must last (names without
\* their space), and the test.
SHIFT_DURATIONS ==
    [Diurna |-> 8, MediaDiurna |-> 4, Mixta |-> 7, Nocturna |-> 6, MediaNocturna |-> 3]

ShiftAccepted(job_shift, start, end) ==
    LET apart == end[1] - start[1]
    IN  (IF apart < 0 THEN -apart ELSE apart) = SHIFT_DURATIONS[job_shift]

\* AdditionalInformationPage.tsx and the details dialog: three sums, rounded each for
\* itself, are more than the shift (of 5/3 of a hundredth of an hour a minute).
justificationRequired(jobFunctions, licenses, rests, start, end) ==
    3 * (calcTotalDeclaredHours(jobFunctions)
           + sumDurationsInHours(licenses) + sumDurationsInHours(rests))
        > 5 * calcWeeklyShiftHours(start, end)

-----------------------------------------------------------------------------
\* A report that the two tables of frequencies weigh differently.
CountsRarely(report) ==
    report.frequency \in {"Trimestral", "Semestral"} /\ report.durationMinutes > 0

\* n and m, in a tenth of 1/52 of a minute, are as near as rounding leaves them.
WithinRounding(n, m, sums) == n - m <= 156 * sums /\ m - n <= 156 * sums

\* The total shown while functions are reported is, to half a hundredth of an hour,
\* the one the declaration is later judged by, exactly when no quarterly or
\* half-yearly function counts.
TotalsAgree ==
    \A first, second \in Reported :
        LET reports == <<first, second>>
        IN  WithinRounding(312 * calcTotalDeclaredHours(reports),
                           10 * totalSemanalMin(reports), 1)
              <=> \A i \in 1..2 : ~CountsRarely(reports[i])

\* What the functions page shows, with the licenses and rests, is over the shift
\* exactly when a justification is required, unless a rare function counts or the two
\* are within three half hundredths of an hour (54 seconds), where a week of just the
\* shift's hours can require one.
JustifiedWhenOver ==
    /\ \A report \in Reported, license, rest \in Durations, end \in ShiftTimes :
          LET start    == <<8, 0>>
              declared == weeklyMinutes(report) + 52 * (license + rest)
              shift    == 52 * calcWeeklyShiftHours(start, end)
          IN  \/ CountsRarely(report)
              \/ WithinRounding(10 * declared, 10 * shift, 3)
              \/ justificationRequired(<<report>>, <<license>>, <<rest>>, start, end)
                   <=> declared > shift
    /\ justificationRequired(<<[frequency |-> "Semanal", durationMinutes |-> 2380]>>,
                             <<10>>, <<10>>, <<8, 0>>, <<16, 0>>)

\* An accepted shift weighs five times what its kind demands, unless its minutes
\* differ or it was given from its end to its start.
ShiftsWeighTheirHours ==
    \A job_shift \in DOMAIN SHIFT_DURATIONS, start, end \in ShiftTimes :
        ShiftAccepted(job_shift, start, end) =>
          (calcWeeklyShiftHours(start, end) = 5 * 60 * SHIFT_DURATIONS[job_shift]
             <=> (start[2] = end[2] /\ start[1] < end[1]))

=============================================================================

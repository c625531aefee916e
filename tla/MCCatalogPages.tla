-------------------------- MODULE MCCatalogPages --------------------------
\* CatalogPages with two rows of which one fills a page, and the classes of values
\* of ClientForms.
EXTENDS CatalogPages

=============================================================================

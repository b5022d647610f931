--------------------------- MODULE MCApplication ---------------------------
\* Application for TLC: a view that fetches and the health view.
EXTENDS Application

MCViewOrder == <<"jobs", "health">>

=============================================================================

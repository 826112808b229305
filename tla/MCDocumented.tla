---------------------------- MODULE MCDocumented ----------------------------
EXTENDS Documented

DefaultTime == {450}    \* --time=45, the default
=============================================================================

---------------------------- MODULE MCSchedulers ----------------------------
(* Five pending events make the calendar double its days, one halves them    *)
(* again; delays far apart make it pass whole years without an event.        *)
EXTENDS Schedulers
=============================================================================

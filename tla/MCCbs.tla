------------------------------- MODULE MCCbs --------------------------------
(* The page caches of cbs_req.  They share nothing: a behaviour is one of  *)
(* cbs_req_pmem, of cbs_req_pmemobj or of one of the others.               *)
(* Three pages for two requests: an update has one spare page, and a crash *)
(* in its window uses the spare up.                                        *)
EXTENDS CbsPmem, CbsPmemobj, CbsDirect

CONSTANTS p1, p2, p3

MCContent == {Ab, Cd}
MCPagePlace == {p1, p2, p3}

VARIABLE program

cbsVars == <<program, vars, objVars, directVars>>

MCInit ==
    /\ program \in {"pmem", "pmemobj", "direct"}
    /\ Init /\ ObjInit /\ DirectInit
    /\ program # "pmem" => meta = [p \in Page |-> Free]
    /\ program # "direct" => kind = "ssd"

MCNext ==
    /\ \/ program = "pmem" /\ Next /\ UNCHANGED <<objVars, directVars>>
       \/ program = "pmemobj" /\ ObjNext /\ UNCHANGED <<vars, directVars>>
       \/ program = "direct" /\ DirectNext /\ UNCHANGED <<vars, objVars>>
    /\ UNCHANGED program

MCSpec == MCInit /\ [][MCNext]_cbsVars
=============================================================================

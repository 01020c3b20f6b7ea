--------------------------- MODULE NodeDirectory ---------------------------
(***************************************************************************)
(* What the node registry promises to its callers, whatever the            *)
(* interleaving of the goroutines that use it: an entry has an identity    *)
(* (the uuid AddNode gives it) that is never used twice and belongs to one *)
(* machine for ever.  An update begins with a live entry; when the entry   *)
(* is forgotten before it ends it brings the entry back, and nothing else  *)
(* does.  One update goes on at a time.                                    *)
(***************************************************************************)
EXTENDS Naturals, FiniteSets

CONSTANTS Ids, Names

VARIABLES
    machine,    \* the name of the machine behind each identity handed out
    live,       \* the identities with an entry
    updating    \* the identity that is being updated, if any

directoryVars == <<machine, live, updating>>

DirectoryInit ==
    /\ machine = [u \in {} |-> CHOOSE n \in Names : TRUE]
    /\ live = {} /\ updating = {}

Register(u, n) ==
    /\ updating = {} /\ u \notin DOMAIN machine
    /\ machine' = [v \in DOMAIN machine \cup {u} |-> IF v = u THEN n ELSE machine[v]]
    /\ live' = live \cup {u}
    /\ UNCHANGED updating

Forget(gone) ==
    /\ live' = live \ gone
    /\ UNCHANGED <<machine, updating>>

UpdateBegins(u) ==
    /\ updating = {} /\ u \in live
    /\ updating' = {u}
    /\ UNCHANGED <<machine, live>>

UpdateEnds ==
    /\ updating # {}
    /\ live' = live \cup updating
    /\ updating' = {}
    /\ UNCHANGED machine

DirectoryNext ==
    \/ \E u \in Ids, n \in Names : Register(u, n)
    \/ \E gone \in SUBSET live : Forget(gone)
    \/ \E u \in live : UpdateBegins(u)
    \/ UpdateEnds

DirectorySpec == DirectoryInit /\ [][DirectoryNext]_directoryVars
=============================================================================

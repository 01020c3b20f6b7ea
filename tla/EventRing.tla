----------------------------- MODULE EventRing -----------------------------
(***************************************************************************)
(* The ring buffer between the collector (CollectEventRecords) and the     *)
(* email report (TriggerEmailReporter).  Both move the package variable    *)
(* eventRing and write the Value it points at, with no lock: every load    *)
(* and store of shared memory is a step of its own.  Records are numbered  *)
(* in the order in which the collector receives them.                      *)
(***************************************************************************)
EXTENDS Integers, Sequences, Functions

CONSTANTS
    N,             \* the argument of ring.New
    MaxRecords,    \* bound: records the collector receives
    MaxEmails      \* bound: runs of the email report

ASSUME EventRingAssumption ==
    /\ N \in Nat \ {0}
    /\ MaxRecords \in Nat
    /\ MaxEmails \in Nat

Nil == 0                    \* the Value of an empty ring element
NoRing == -1                \* eventRing before ring.New
Slots == 0 .. N - 1

VARIABLES
    eventRing,    \* the element eventRing points at, or NoRing
    value,        \* the Value of each element
    cpc,          \* where the collector is
    cptr,         \* the element its current statement loaded
    collected,    \* records received so far; the last one is the record in hand
    epc,          \* where the email report is
    eptr,         \* the element its current statement loaded
    i,            \* its loop variable
    mail,         \* emailData.EmailRecords.Records
    emails,       \* runs of the email report so far
    reported,     \* history: records of the emails that were sent
    dropped,      \* history: records of the emails that could not be sent
    overlapped    \* history: the two loops were inside their bodies at once

collectorVars == <<cpc, cptr, collected>>
reporterVars == <<epc, eptr, i, mail, emails, reported, dropped>>
vars == <<eventRing, value, collectorVars, reporterVars, overlapped>>

Collecting == cpc \in {"load", "store", "loadNext", "advance"}
Reporting == epc \in {"test", "load", "read", "loadClear", "clear", "loadNext", "advance"}

Init ==
    /\ eventRing = NoRing
    /\ value = [s \in Slots |-> Nil]
    /\ cpc = "new"
    /\ cptr = NoRing
    /\ collected = 0
    /\ epc = "idle"
    /\ eptr = NoRing
    /\ i = 0
    /\ mail = <<>>
    /\ emails = 0
    /\ reported = <<>>
    /\ dropped = {}
    /\ overlapped = FALSE

\* container/ring: Next of an element of a ring of N elements, and Len.
NextSlot(s) == (s + 1) % N
RingLen == IF eventRing = NoRing THEN 0 ELSE N

-----------------------------------------------------------------------------
(* CollectEventRecords *)

NewRing ==
    /\ cpc = "new"
    /\ eventRing' = 0
    /\ value' = [s \in Slots |-> Nil]
    /\ cpc' = "receive"
    /\ UNCHANGED <<cptr, collected, reporterVars>>

Receive ==
    /\ cpc = "receive"
    /\ collected < MaxRecords
    /\ collected' = collected + 1
    /\ cpc' = "load"
    /\ UNCHANGED <<eventRing, value, cptr, reporterVars>>

(* eventRing.Value = eventRecord *)
LoadToStore ==
    /\ cpc = "load"
    /\ cptr' = eventRing
    /\ cpc' = "store"
    /\ UNCHANGED <<eventRing, value, collected, reporterVars>>

Store ==
    /\ cpc = "store"
    /\ value' = [value EXCEPT ![cptr] = collected]
    /\ cpc' = "loadNext"
    /\ UNCHANGED <<eventRing, cptr, collected, reporterVars>>

(* eventRing = eventRing.Next() *)
LoadToAdvance ==
    /\ cpc = "loadNext"
    /\ cptr' = eventRing
    /\ cpc' = "advance"
    /\ UNCHANGED <<eventRing, value, collected, reporterVars>>

\* Mutant of Advance: the collector stays on the element it filled.
Advance_Stays ==
    /\ cpc = "advance"
    /\ cpc' = "receive"
    /\ UNCHANGED <<eventRing, value, cptr, collected, reporterVars>>

Advance ==
    /\ cpc = "advance"
    /\ eventRing' = NextSlot(cptr)
    /\ cpc' = "receive"
    /\ UNCHANGED <<value, cptr, collected, reporterVars>>

Collector == NewRing \/ Receive \/ LoadToStore \/ Store \/ LoadToAdvance \/ Advance

-----------------------------------------------------------------------------
(* TriggerEmailReporter *)

StartReport ==
    /\ epc = "idle"
    /\ emails < MaxEmails
    /\ emails' = emails + 1
    /\ i' = 0
    /\ mail' = <<>>
    /\ epc' = "test"
    /\ UNCHANGED <<eventRing, value, collectorVars, eptr, reported, dropped>>

(* for i < eventRing.Len() *)
TestLen ==
    /\ epc = "test"
    /\ epc' = IF i < RingLen THEN "load" ELSE "send"
    /\ UNCHANGED <<eventRing, value, collectorVars, eptr, i, mail, emails, reported, dropped>>

(* record := eventRing.Value, and the append of a record that is not nil.   *)
LoadToRead ==
    /\ epc = "load"
    /\ eptr' = eventRing
    /\ epc' = "read"
    /\ UNCHANGED <<eventRing, value, collectorVars, i, mail, emails, reported, dropped>>

ReadValue ==
    /\ epc = "read"
    /\ IF value[eptr] = Nil
       THEN epc' = "loadNext" /\ UNCHANGED mail
       ELSE epc' = "loadClear" /\ mail' = Append(mail, value[eptr])
    /\ UNCHANGED <<eventRing, value, collectorVars, eptr, i, emails, reported, dropped>>

(* eventRing.Value = nil *)
LoadToClear ==
    /\ epc = "loadClear"
    /\ eptr' = eventRing
    /\ epc' = "clear"
    /\ UNCHANGED <<eventRing, value, collectorVars, i, mail, emails, reported, dropped>>

\* Mutant of Clear: the element keeps its record.
Clear_Forgotten ==
    /\ epc = "clear"
    /\ epc' = "loadNext"
    /\ UNCHANGED <<eventRing, value, collectorVars, eptr, i, mail, emails, reported, dropped>>

Clear ==
    /\ epc = "clear"
    /\ value' = [value EXCEPT ![eptr] = Nil]
    /\ epc' = "loadNext"
    /\ UNCHANGED <<eventRing, collectorVars, eptr, i, mail, emails, reported, dropped>>

(* eventRing = eventRing.Next(), i++ *)
LoadToMove ==
    /\ epc = "loadNext"
    /\ eptr' = eventRing
    /\ epc' = "advance"
    /\ UNCHANGED <<eventRing, value, collectorVars, i, mail, emails, reported, dropped>>

Move ==
    /\ epc = "advance"
    /\ eventRing' = NextSlot(eptr)
    /\ i' = i + 1
    /\ epc' = "test"
    /\ UNCHANGED <<value, collectorVars, eptr, mail, emails, reported, dropped>>

(* SendEmail succeeds, or fails and is logged: the records are gone from    *)
(* the ring either way.                                                     *)
SendEmail ==
    /\ epc = "send"
    /\ \/ reported' = reported \o mail /\ UNCHANGED dropped
       \/ dropped' = dropped \cup Range(mail) /\ UNCHANGED reported
    /\ mail' = <<>>
    /\ epc' = "idle"
    /\ UNCHANGED <<eventRing, value, collectorVars, eptr, i, emails>>

Reporter == StartReport \/ TestLen \/ LoadToRead \/ ReadValue \/ LoadToClear \/ Clear
            \/ LoadToMove \/ Move \/ SendEmail

RingNext ==
    /\ Collector \/ Reporter
    /\ overlapped' = (overlapped \/ (Collecting' /\ Reporting'))
RingSpec == Init /\ [][RingNext]_vars

-----------------------------------------------------------------------------
(* The type invariant: whatever the interleaving, eventRing and the loaded  *)
(* pointers are elements of the ring and its values are received records.   *)
TypeOK ==
    /\ eventRing \in Slots \cup {NoRing}
    /\ value \in [Slots -> 0 .. collected]
    /\ cptr \in Slots \cup {NoRing}
    /\ eptr \in Slots \cup {NoRing}
    /\ collected \in 0 .. MaxRecords
    /\ i \in 0 .. N
    /\ emails \in 0 .. MaxEmails
    /\ mail \in Seq(1 .. collected)
    /\ reported \in Seq(1 .. collected)
    /\ dropped \subseteq 1 .. collected
    /\ overlapped \in BOOLEAN

\* Records that CollectEventRecords has put into the ring.
Stored == 1 .. (IF cpc \in {"load", "store"} THEN collected - 1 ELSE collected)
Buffered == {value[s] : s \in Slots} \ {Nil}

Mailed == Range(mail) \cup Range(reported) \cup dropped

(* While the collector and the report never overlap, a record leaves the    *)
(* ring only into an email, or because N later records were collected.      *)
NoLossWithoutOverlap ==
    ~overlapped => \A r \in Stored : r \in Buffered \cup Mailed \/ r + N \in Stored

(* While they never overlap, a record is reported at most once, and records *)
(* are reported in the order in which they were collected.                  *)
ReportedOnceInOrder ==
    ~overlapped =>
        LET all == reported \o mail
        IN  \A j, k \in DOMAIN all : j < k => all[j] < all[k]
=============================================================================

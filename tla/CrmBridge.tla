------------------------------ MODULE CrmBridge -----------------------------
(***************************************************************************)
(* crm-bridge.ts and contact-sync.ts: a message or event is pushed to the  *)
(* CRM as an activity of the sender's person, who is looked up and, if not *)
(* there, created; the CRM itself lets two persons share a number.  Pushes *)
(* are not ordered.  A request is executed by the CRM and then answered,   *)
(* answered with GraphQL errors, or lost: it was not a 200, the connection *)
(* broke or the 30 s ran out; and then the CRM may have executed it, may   *)
(* do so later, or never.  A person is named by the push that created it.  *)
(***************************************************************************)
EXTENDS Naturals, FiniteSets

CONSTANTS Pushes, Contacts

VARIABLES
  push,      \* push[p]: [pc, contact, only]: only ensures the contact exists
  persons,   \* the CRM: the pushes that created a person, each for its contact
  activities,\* the CRM: [by, person]
  late,      \* the CRM: pushes that gave up a creation it may still execute
  misled,    \* history: pushes whose lookup was answered with errors
  together   \* history: pairs of pushes at work at the same time

crmVars == <<push, persons, activities, late, misled, together>>

CrmInit ==
  /\ push \in [Pushes -> [pc : {"waits"}, contact : Contacts, only : BOOLEAN]]
  /\ persons = {} /\ activities = {} /\ late = {} /\ misled = {} /\ together = {}

Underway == {p \in Pushes : push[p].pc \notin {"waits", "done"}}

\* Pushes under way, or over with a creation that the CRM still holds.
AtWork == Underway \cup late

PushAt(p, pc) == push[p].pc = pc
PushTo(p, pc) == push' = [push EXCEPT ![p].pc = pc]

\* pushConversationToCRM, pushInboundMessageToCRM, pushGatewayEventToCRM with
\* the bridge configured, and ensureCRMContact.
Push(p) ==
  /\ PushAt(p, "waits")
  /\ PushTo(p, "find")
  /\ together' = together \cup {{p, q} : q \in AtWork}
  /\ UNCHANGED <<persons, activities, late, misled>>

\* Faulty: the filter asks for a field the person does not carry.
PersonsOfNobody(p) == {q \in persons : push[q].contact # push[p].contact}

PersonsOf(p) == {q \in persons : push[q].contact = push[p].contact}

findPersonByContact(p) ==
  /\ PushAt(p, "find")
  /\ PushTo(p, IF PersonsOf(p) = {} THEN "create"
               ELSE IF push[p].only THEN "done" ELSE "activity")
  /\ UNCHANGED <<persons, activities, late, misled, together>>

\* Errors are answered with null, as if nobody had been found.
FindAnswersErrors(p) ==
  /\ PushAt(p, "find")
  /\ PushTo(p, "create")
  /\ misled' = misled \cup {p}
  /\ UNCHANGED <<persons, activities, late, together>>

\* The person is there when the mutation was executed, whether or not the
\* answer comes; without an answer the push ends.
createPerson(p) ==
  /\ PushAt(p, "create")
  /\ persons' = persons \cup {p}
  /\ \/ PushTo(p, IF push[p].only THEN "done" ELSE "activity")
     \/ PushTo(p, "done")
  /\ UNCHANGED <<activities, late, misled, together>>

\* The 30 s run out, or the connection to the CRM breaks: the push ends, and the
\* CRM still has the mutation.
CreateTimesOut(p) ==
  /\ PushAt(p, "create")
  /\ PushTo(p, "done")
  /\ late' = late \cup {p}
  /\ UNCHANGED <<persons, activities, misled, together>>

\* The CRM executes, or drops, what nobody waits for any more.
ExecutedLate(p) ==
  /\ p \in late
  /\ late' = late \ {p}
  /\ persons' \in {persons, persons \cup {p}}
  /\ UNCHANGED <<push, activities, misled, together>>

\* targetPersonId: the first person found, or the one created.
createTimelineActivity(p) ==
  /\ PushAt(p, "activity")
  /\ \E person \in IF p \in persons THEN {p} ELSE PersonsOf(p) :
       activities' = activities \cup {[by |-> p, person |-> person]}
  /\ PushTo(p, "done")
  /\ UNCHANGED <<persons, late, misled, together>>

\* The request fails without effect, then or later: logged, and the push ends.
\* (An activity that is written late differs from one written at once in no
\* more than its time.)
RequestFails(p) ==
  /\ p \in Underway
  /\ PushTo(p, "done")
  /\ UNCHANGED <<persons, activities, late, misled, together>>

CrmNext ==
  \E p \in Pushes :
    \/ Push(p) \/ findPersonByContact(p) \/ FindAnswersErrors(p)
    \/ createPerson(p) \/ CreateTimesOut(p) \/ ExecutedLate(p)
    \/ createTimelineActivity(p) \/ RequestFails(p)

CrmSpec == CrmInit /\ [][CrmNext]_crmVars

-----------------------------------------------------------------------------
(* A contact has a second person only because two pushes were at work at   *)
(* the same time, each looking before the other's person was there, or     *)
(* because the later one's lookup was answered with an error.  A push that *)
(* timed out is at work until the CRM has executed or dropped its creation *)
(* (crm-bridge.ts:84), so its lost answer does make a second person if the *)
(* next push looks before that, and not otherwise.                         *)
(* (pushConversationToCRM, ensureCRMContact)                               *)
OnePersonPerContact ==
  \A p, q \in persons :
    p # q /\ push[p].contact = push[q].contact =>
      {p, q} \in together \/ {p, q} \cap misled # {}
=============================================================================

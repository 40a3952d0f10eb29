------------------------------ MODULE KeyedWrites ------------------------------
(***************************************************************************)
(* The three tables a client may write again under the same key: messages, *)
(* playback quality logs and reports.  Unique indexes keep a second row    *)
(* out, and the row that is there answers instead.  One user's rows of one *)
(* table: every index and every query begins with the user.                *)
(***************************************************************************)
EXTENDS Integers, FiniteSets, SequencesExt

CONSTANTS
  Clients,     \* requests under way at a time
  Keys, NoKey,
  MaxKeyed     \* bound: rows

ASSUME KeyedAssumption == NoKey \notin Keys /\ MaxKeyed \in Nat

VARIABLES
  table,     \* user_message, playback_qos_log or report
  rows,      \* its rows, in the order of their ids
  writing,   \* the request of each client
  watched,   \* one of the requests that have a key or an event id
  answers    \* the rows it was answered with, whether an answer arrived or not

keyedVars == <<table, rows, writing, watched, answers>>

Tables == {"message", "qos", "report"}

\* Only a message has an event id beside its key; the writers of the program give an event
\* its own id as key, the HTTP API of messages any two.
WriteRequests ==
  {r \in [key : Keys \cup {NoKey}, event : Keys \cup {NoKey}] :
      table # "message" => r.event = NoKey}

Identified(r) == r.key # NoKey \/ r.event # NoKey

NotWriting == [step |-> "none"]

KeyedInit ==
  /\ table \in Tables
  /\ watched \in {r \in WriteRequests : Identified(r)}
  /\ rows = <<>> /\ answers = {}
  /\ writing = [c \in Clients |-> NotWriting]
----------------------------------------------------------------------------
Row(r) == [key |-> r.key, event |-> r.event, read |-> FALSE, status |-> "pending"]

\* The rows a unique index holds against the request; null keeps nothing out.
Clashing(r) ==
  {i \in DOMAIN rows : \/ r.key # NoKey /\ rows[i].key = r.key
                       \/ r.event # NoKey /\ rows[i].event = r.event}

Answer(c, r, i) ==
  /\ answers' = answers \cup (IF r = watched THEN {i} ELSE {})
  /\ writing' = [writing EXCEPT ![c] = NotWriting]

StartInsert(c, r) ==
  /\ writing' = [writing EXCEPT ![c] = [step |-> "insert", request |-> r]]
  /\ UNCHANGED answers

\* CreateFromActorEvent and CreateQoSReport insert at once.
CreateFromEvent(c) ==
  /\ writing[c] = NotWriting /\ table = "message"
  /\ \E r \in WriteRequests : StartInsert(c, r)
  /\ UNCHANGED <<table, rows, watched>>

CreateQoSReport(c) ==
  /\ writing[c] = NotWriting /\ table = "qos"
  /\ \E r \in WriteRequests : StartInsert(c, r)
  /\ UNCHANGED <<table, rows, watched>>

\* A report whose key is known is answered.
CreateReport(c) ==
  /\ writing[c] = NotWriting /\ table = "report"
  /\ \E r \in WriteRequests :
       \/ \E i \in Clashing(r) : Answer(c, r, i)
       \/ Clashing(r) = {} /\ StartInsert(c, r)
  /\ UNCHANGED <<table, rows, watched>>

\* Mutant: reports rely on their lookup, their key is not unique.
CreateUnlessMessage(c) ==
  /\ writing[c].step = "insert" /\ Len(rows) < MaxKeyed
  /\ LET r == writing[c].request IN
       \/ /\ Clashing(r) = {} \/ table = "report"
          /\ rows' = Append(rows, Row(r))
          /\ Answer(c, r, Len(rows) + 1)
       \/ /\ Clashing(r) # {} /\ table # "report"
          /\ writing' = [writing EXCEPT ![c].step = "find"]
          /\ UNCHANGED <<rows, answers>>
  /\ UNCHANGED <<table, watched>>

\* The insert of Create, CreateQoSReport and CreateReport.
CreateKeyed(c) ==
  /\ writing[c].step = "insert"
  /\ LET r == writing[c].request IN
       \/ /\ Clashing(r) = {} /\ Len(rows) < MaxKeyed
          /\ rows' = Append(rows, Row(r))
          /\ Answer(c, r, Len(rows) + 1)
       \/ /\ Clashing(r) # {}
          /\ writing' = [writing EXCEPT ![c].step = "find"]
          /\ UNCHANGED <<rows, answers>>
  /\ UNCHANGED <<table, watched>>

\* findExisting, findExistingQoS and the reload of CreateReport: the newest that matches.
FindExisting(c) ==
  /\ writing[c].step = "find"
  /\ Answer(c, writing[c].request, Max(Clashing(writing[c].request)))
  /\ UNCHANGED <<table, rows, watched>>

\* An invalid target, a query that fails, a request that times out or a process that stops.
GiveUpWrite(c) ==
  /\ writing[c].step # "none"
  /\ writing' = [writing EXCEPT ![c] = NotWriting]
  /\ UNCHANGED <<table, rows, watched, answers>>

\* MarkRead: some messages, or all that are there.
MarkRead ==
  /\ table = "message"
  /\ \E ids \in SUBSET DOMAIN rows :
       /\ \E i \in ids : ~rows[i].read
       /\ rows' = [i \in DOMAIN rows |-> IF i \in ids THEN [rows[i] EXCEPT !.read = TRUE] ELSE rows[i]]
  /\ UNCHANGED <<table, writing, watched, answers>>

\* ResolveReport, under the lock of the row; what is resolved stays as it is.
ResolveReport ==
  /\ table = "report"
  /\ \E i \in DOMAIN rows :
       /\ rows[i].status = "pending"
       /\ rows' = [rows EXCEPT ![i].status = "resolved"]
  /\ UNCHANGED <<table, writing, watched, answers>>

KeyedNext ==
  \/ \E c \in Clients :
       \/ CreateFromEvent(c) \/ CreateQoSReport(c) \/ CreateReport(c)
       \/ CreateKeyed(c) \/ FindExisting(c) \/ GiveUpWrite(c)
  \/ MarkRead \/ ResolveReport

KeyedSpec == KeyedInit /\ [][KeyedNext]_keyedVars
----------------------------------------------------------------------------
(* Properties.                                                             *)

Mixed(r) == \E i \in Clashing(r) : rows[i].key # r.key \/ rows[i].event # r.event

\* However often a request is sent again under its key, next to itself or after a lost answer,
\* it is answered with one row, unless a message mixes its event id with another key or its key
\* with another event id.
RepeatsAnswered == Mixed(watched) \/ Cardinality(answers) <= 1

KeyedRow == [key : Keys \cup {NoKey}, event : Keys \cup {NoKey}, read : BOOLEAN,
             status : {"pending", "resolved"}]

KeyedTypeOK ==
  /\ table \in Tables
  /\ rows \in Seq(KeyedRow)
  /\ watched \in WriteRequests /\ Identified(watched)
  /\ writing \in [Clients -> [step : {"none"}] \cup [step : {"insert", "find"}, request : WriteRequests]]

\* The unique indexes.
KeysUnique ==
  \A i, j \in DOMAIN rows :
    \/ rows[i].key # NoKey /\ rows[i].key = rows[j].key
    \/ rows[i].event # NoKey /\ rows[i].event = rows[j].event
    => i = j

\* Inductive: answers come from the rows an index holds against the request.
KeyedInv ==
  /\ KeyedTypeOK /\ KeysUnique
  /\ answers \subseteq Clashing(watched)
  /\ \A c \in Clients : writing[c].step = "find" => Clashing(writing[c].request) # {}
============================================================================

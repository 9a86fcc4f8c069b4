------------------------------ MODULE Settings ------------------------------
(***************************************************************************)
(* The parameters of an account, among them the keys of its exchanges:     *)
(* ConfigService and ExchangeConnectorService.  A save or a deletion goes  *)
(* through its fields one by one, and for each it first looks for the row  *)
(* and then writes; the keys of an exchange are read one by one too.       *)
(* Nothing keeps requests apart, and the names of the table are not unique. *)
(*                                                                         *)
(* The database is external: findFirst gives any row of the name, and a    *)
(* write to a row that is gone throws.                                     *)
(***************************************************************************)
EXTENDS Naturals, Sequences, FiniteSets

CONSTANTS
  Fields,    \* names of parameters
  Asking,    \* of each request: what it is, and its fields in order
  Absent     \* no value

Asked == DOMAIN Asking
FieldsOf(r) == {Asking[r].fields[i] : i \in 1 .. Len(Asking[r].fields)}
Readers == {r \in Asked : Asking[r].kind = "read"}

ASSUME SettingsAssumption ==
  /\ \A r \in Asked : /\ Asking[r].kind \in {"save", "delete", "read"}
                      /\ Asking[r].fields \in Seq(Fields) \ {<<>>}
  /\ Absent \notin Asked

VARIABLES
  rows,      \* of the table: [id, name, value]; a value is the save it is of
  lastId,
  calls,     \* of each request: [pc, at, found (a row, or none), got]
  settled,   \* history: the value that the last write of a field was to leave
  expected,  \* history: what was settled when a request began
  met        \* history: fields that two writers met in, readers that met a writer

settingsVars == <<rows, lastId, calls, settled, expected, met>>

Name(r) == Asking[r].fields[calls[r].at]
Active(r) == calls[r].pc \notin {"idle", "done", "failed"}
Rows(name) == {row \in rows : row.name = name}

SettingsInit ==
  /\ rows = {}
  /\ lastId = 0
  /\ calls = [r \in Asked |-> [pc |-> "idle", at |-> 1, found |-> {}, got |-> <<>>]]
  /\ settled = [f \in Fields |-> Absent]
  /\ expected = [r \in Asked |-> [f \in Fields |-> Absent]]
  /\ met = {}

Begin(r) ==
  LET others == {o \in Asked : Active(o) /\ FieldsOf(o) \cap FieldsOf(r) # {}}
      writers == others \ Readers
  IN
  /\ calls[r].pc = "idle"
  /\ calls' = [calls EXCEPT ![r].pc = "find"]
  /\ expected' = [expected EXCEPT ![r] = settled]
  /\ met' = met \cup
       (IF r \in Readers THEN IF writers # {} THEN {r} ELSE {}
        ELSE (others \cap Readers) \cup UNION {FieldsOf(o) \cap FieldsOf(r) : o \in writers})
  /\ UNCHANGED <<rows, lastId, settled>>

\* getParam, the first await for every field.
GetParam(r) ==
  /\ calls[r].pc = "find"
  /\ \E found \in {{row} : row \in Rows(Name(r))} \cup (IF Rows(Name(r)) = {} THEN {{}} ELSE {}) :
       calls' = [calls EXCEPT ![r].pc = "use", ![r].found = found]
  /\ UNCHANGED <<rows, lastId, settled, expected, met>>

\* The row that was found, if it is still in the table: {} or {row}.
Kept(r) == {row \in rows : \E found \in calls[r].found : row.id = found.id}

NextCall(r) ==
  IF calls[r].at < Len(Asking[r].fields)
  THEN [calls[r] EXCEPT !.pc = "find", !.at = calls[r].at + 1]
  ELSE [calls[r] EXCEPT !.pc = "done"]

NextField(r) == calls' = [calls EXCEPT ![r] = NextCall(r)]

Fails(r) == calls' = [calls EXCEPT ![r].pc = "failed"]

\* Mutant: the row found is not looked at.
UpdateParamAnew(r) ==
  /\ calls[r].pc = "use" /\ Asking[r].kind = "save"
  /\ rows' = rows \cup {[id |-> lastId + 1, name |-> Name(r), value |-> r]}
  /\ lastId' = lastId + 1
  /\ settled' = [settled EXCEPT ![Name(r)] = r]
  /\ NextField(r)
  /\ UNCHANGED <<expected, met>>

\* updateParam: a row is made, or the one that was found is changed; one that
\* is gone makes the update throw, and the fields that follow are not saved.
UpdateParam(r) ==
  /\ calls[r].pc = "use" /\ Asking[r].kind = "save"
  /\ \/ /\ calls[r].found = {}
        /\ rows' = rows \cup {[id |-> lastId + 1, name |-> Name(r), value |-> r]}
        /\ lastId' = lastId + 1
        /\ settled' = [settled EXCEPT ![Name(r)] = r]
        /\ NextField(r)
     \/ /\ Kept(r) # {}
        /\ rows' = (rows \ Kept(r)) \cup {[row EXCEPT !.value = r] : row \in Kept(r)}
        /\ settled' = [settled EXCEPT ![Name(r)] = r]
        /\ NextField(r)
        /\ UNCHANGED lastId
     \/ /\ calls[r].found # {} /\ Kept(r) = {}
        /\ Fails(r)
        /\ UNCHANGED <<rows, lastId, settled>>
  /\ UNCHANGED <<expected, met>>

\* deleteParam: without a row it throws, and the fields that follow stay.
DeleteParam(r) ==
  /\ calls[r].pc = "use" /\ Asking[r].kind = "delete"
  /\ rows' = rows \ Kept(r)
  /\ \/ /\ Kept(r) # {}
        /\ settled' = [settled EXCEPT ![Name(r)] = Absent]
        /\ NextField(r)
     \/ /\ Kept(r) = {}
        /\ Fails(r)
        /\ UNCHANGED settled
  /\ UNCHANGED <<lastId, expected, met>>

\* getExchangeConfig: the value goes into the keys; without a row there are none.
TakeKey(r) ==
  /\ calls[r].pc = "use" /\ r \in Readers
  /\ \/ \E row \in calls[r].found :
          /\ calls[r].at < Len(Asking[r].fields)
          /\ calls' = [calls EXCEPT ![r] = [pc |-> "find", at |-> calls[r].at + 1, found |-> {},
                                           got |-> Append(calls[r].got, row.value)]]
     \/ \E row \in calls[r].found :
          /\ calls[r].at = Len(Asking[r].fields)
          /\ calls' = [calls EXCEPT ![r].pc = "done", ![r].got = Append(calls[r].got, row.value)]
     \/ calls[r].found = {} /\ Fails(r)
  /\ UNCHANGED <<rows, lastId, settled, expected, met>>

SettingsNext ==
  \E r \in Asked : \/ Begin(r)
                   \/ GetParam(r)
                   \/ UpdateParam(r)
                   \/ DeleteParam(r)
                   \/ TakeKey(r)

SettingsSpec == SettingsInit /\ [][SettingsNext]_settingsVars

-----------------------------------------------------------------------------
(* Properties.                                                             *)

\* The table is a map, which holds of a field what its last save or deletion
\* was to leave, unless two writers have met in it (updateParam, deleteParam):
\* then a field has two rows, and a deletion brings the older one back.
TableFollowsRequests ==
  \A f \in Fields \ met :
    \/ settled[f] = Absent /\ Rows(f) = {}
    \/ \E id \in 1 .. lastId : Rows(f) = {[id |-> id, name |-> f, value |-> settled[f]]}

\* A start of a runtime gets its exchange's keys of one state of the settings,
\* never one key before a save and another after it, unless a writer was on
\* its way (getExchangeConfig).
KeysAreOfOneState ==
  \A r \in Readers : calls[r].pc = "done" /\ {r} \cap met = {} /\ FieldsOf(r) \cap met = {}
    => \A i \in 1 .. Len(calls[r].got) : calls[r].got[i] = expected[r][Asking[r].fields[i]]

\* Both: what is saved is what is kept, and what a start reads is of one piece.
SettingsFollowRequests == TableFollowsRequests /\ KeysAreOfOneState
=============================================================================

------------------------ MODULE CommandPipelineProofs ------------------------
(***************************************************************************)
(* Proofs about the command pipeline, for every set of commands and every  *)
(* capacity of the three channels.                                         *)
(*                                                                         *)
(* The argument follows the ownership of a command.  StageInv says that a  *)
(* command is in exactly one place; RowInv what its row can be while it is *)
(* there, and that only commands past the MQTT worker are on the wire.     *)
(* From these two every write of a result meets a row without a result,    *)
(* and agrees with what the MQTT client was given.  OrderInv lines the     *)
(* places up, from the wire back to the command queue, in the order in     *)
(* which that queue accepted the commands.                                 *)
(***************************************************************************)
EXTENDS CommandPipeline, TLAPS

NoDup(s) == \A i, j \in DOMAIN s : s[i] = s[j] => i = j

\* Commands of a sequence of outcomes.
Firsts(s) == {o[1] : o \in Items(s)}
NoDupFirsts(s) == \A i, j \in DOMAIN s : s[i][1] = s[j][1] => i = j

StageInv ==
  /\ \A c \in Commands :
       /\ c \in Items(queue) <=> stage[c] = "queue"
       /\ c = procCmd <=> stage[c] = "processor"
       /\ c \in Items(bus) <=> stage[c] = "bus"
       /\ c = workCmd <=> stage[c] = "worker"
       /\ c \in Firsts(outcomes) <=> stage[c] = "outcome"
       /\ consCmd # None /\ consCmd[1] = c <=> stage[c] = "consumer"
       /\ stage[c] \in {"recording", "recorded", "rejected"} =>
            c \in ApiCommands
  /\ NoDup(queue) /\ NoDup(bus) /\ NoDupFirsts(outcomes)
  /\ proc \in {"select", "exited"} <=> procCmd = None
  /\ work = "publish" <=> workCmd # None
  /\ cons = "update" <=> consCmd # None

RowInv ==
  /\ \A c \in Commands :
       /\ ~storage => row[c] = "none" /\ stage[c] # "recording"
       /\ stage[c] \in {"new", "recording"} => row[c] = "none"
       /\ stage[c] \in {"recorded", "rejected", "bus", "worker", "outcome",
                        "consumer"} => row[c] = "queued"
       /\ stage[c] = "queue" =>
            row[c] = IF c \in ApiCommands THEN "queued" ELSE "none"
       /\ stage[c] = "processor" =>
            /\ row[c] \in {"none", "queued"}
            /\ c \in ApiCommands => row[c] = "queued"
            /\ proc = "render" /\ c \in RuleCommands => row[c] = "none"
            /\ proc = "record" => row[c] = "none" /\ c \in RuleCommands
            /\ proc = "enqueue" => row[c] = "queued"
       /\ c \in Items(wire) =>
            stage[c] \in {"outcome", "consumer", "finished", "unreported",
                          "discarded"}
  /\ \A o \in Items(outcomes) : o[2] = "published" <=> o[1] \in Items(wire)
  /\ consCmd # None =>
       (consCmd[2] = "published" <=> consCmd[1] \in Items(wire))

AnswerInv ==
  \A c \in Commands :
    /\ answer[c] = "queued" =>
         stage[c] \in {"queue", "processor", "bus", "worker", "outcome",
                       "consumer", "finished", "unreported", "discarded"}
    /\ stage[c] = "discarded" => driver # "up"
    /\ stage[c] = "finished" /\ answer[c] = "queued" =>
         \/ row[c] \in Terminal
         \/ c \in updateFailed
         \/ c \in RuleCommands /\ row[c] = "none" /\ c \notin Items(wire)

\* Where the tasks stand while the shutdown goes on.
TaskInv ==
  /\ proc = "exited" => ~queueOpen
  /\ cons = "exited" => ~outcomesOpen
  /\ work = "exited" => EngineStopping \/ driver = "crashed"
  /\ driver \in {"joinConsumer", "stopEngine", "down"} => proc = "exited"
  /\ driver \in {"stopEngine", "down"} => cons = "exited"

\* What ResultFinal asks of a step.
ResultsStay == \A c \in Commands : row[c] \in Terminal => row'[c] = row[c]

IInv ==
  /\ TypeOK /\ StageInv /\ RowInv /\ AnswerInv /\ TaskInv
  /\ WriteAheadAudit /\ StatusTruthful /\ PublishedOnce /\ NoOrphans

-----------------------------------------------------------------------------
(* The operations of the channels, as sets of commands.                    *)

\* What Append does to the items of a sequence.
LEMMA AppendItems ==
  ASSUME NEW S, NEW s \in Seq(S), NEW e \in S
  PROVE  Append(s, e) \in Seq(S) /\ Items(Append(s, e)) = Items(s) \cup {e}
<1>1. /\ Append(s, e) \in Seq(S) /\ Len(s) \in Nat /\ DOMAIN s = 1..Len(s)
      /\ DOMAIN Append(s, e) = 1..Len(s) + 1
      /\ \A i \in 1..Len(s) : Append(s, e)[i] = s[i]
      /\ Append(s, e)[Len(s) + 1] = e
  OBVIOUS
<1>2. Items(Append(s, e)) \subseteq Items(s) \cup {e}
  BY <1>1 DEF Items
<1>3. Items(s) \subseteq Items(Append(s, e))
  BY <1>1 DEF Items
<1>4. e \in Items(Append(s, e))
  BY <1>1 DEF Items
<1> QED
  BY <1>1, <1>2, <1>3, <1>4

\* What Tail does to the items of a sequence.
LEMMA TailItems ==
  ASSUME NEW S, NEW s \in Seq(S), s # <<>>
  PROVE  /\ Head(s) \in S /\ Tail(s) \in Seq(S)
         /\ Items(s) = {Head(s)} \cup Items(Tail(s))
<1>1. Len(s) \in Nat /\ Len(s) > 0 /\ Head(s) = s[1] /\ DOMAIN s = 1..Len(s)
  OBVIOUS
<1>2. \A i \in 1..Len(s) : i = 1 \/ (i - 1 \in 1..Len(s) - 1
                                       /\ Tail(s)[i - 1] = s[i])
  BY <1>1
<1>3. \A i \in 1..Len(s) - 1 : i + 1 \in 1..Len(s) /\ Tail(s)[i] = s[i + 1]
  BY <1>1
<1>4. DOMAIN Tail(s) = 1..Len(s) - 1
  BY <1>1
<1>5. Items(s) \subseteq {Head(s)} \cup Items(Tail(s))
  BY <1>1, <1>2, <1>4 DEF Items
<1>6. {Head(s)} \cup Items(Tail(s)) \subseteq Items(s)
  BY <1>1, <1>3, <1>4 DEF Items
<1> QED
  BY <1>1, <1>5, <1>6

\* The empty channel has no items.
LEMMA NoItems ==
  /\ Items(<<>>) = {} /\ NoDup(<<>>)
  /\ Firsts(<<>>) = {} /\ NoDupFirsts(<<>>)
BY DEF Items, NoDup, Firsts, NoDupFirsts

\* Adding a new command keeps the commands of a channel distinct.
LEMMA AppendNoDup ==
  ASSUME NEW S, NEW s \in Seq(S), NEW e \in S, NoDup(s), e \notin Items(s)
  PROVE  NoDup(Append(s, e))
BY DEF Items, NoDup

\* Taking the first command keeps them distinct, and it is gone.
LEMMA TailNoDup ==
  ASSUME NEW S, NEW s \in Seq(S), s # <<>>, NoDup(s)
  PROVE  NoDup(Tail(s)) /\ Head(s) \notin Items(Tail(s))
<1>1. Len(s) \in Nat /\ Len(s) > 0 /\ Head(s) = s[1] /\ DOMAIN s = 1..Len(s)
  OBVIOUS
<1>2. /\ DOMAIN Tail(s) = 1..Len(s) - 1
      /\ \A i \in 1..Len(s) - 1 : i + 1 \in 1..Len(s) /\ Tail(s)[i] = s[i + 1]
  BY <1>1
<1>3. NoDup(Tail(s))
  BY <1>1, <1>2 DEF NoDup
<1>4. Head(s) \notin Items(Tail(s))
  BY <1>1, <1>2 DEF NoDup, Items
<1> QED
  BY <1>3, <1>4

\* The same two facts for the commands of the outcome channel.
LEMMA AppendNoDupFirsts ==
  ASSUME NEW s \in Seq(Outcome), NEW e \in Outcome, NoDupFirsts(s),
         e[1] \notin Firsts(s)
  PROVE  NoDupFirsts(Append(s, e))
BY DEF Items, Firsts, NoDupFirsts

\* The same for the first occurrences that are left after Tail.
LEMMA TailNoDupFirsts ==
  ASSUME NEW s \in Seq(Outcome), s # <<>>, NoDupFirsts(s)
  PROVE  NoDupFirsts(Tail(s)) /\ Head(s)[1] \notin Firsts(Tail(s))
<1>1. Len(s) \in Nat /\ Len(s) > 0 /\ Head(s) = s[1] /\ DOMAIN s = 1..Len(s)
  OBVIOUS
<1>2. /\ DOMAIN Tail(s) = 1..Len(s) - 1
      /\ \A i \in 1..Len(s) - 1 : i + 1 \in 1..Len(s) /\ Tail(s)[i] = s[i + 1]
  BY <1>1
<1>3. NoDupFirsts(Tail(s))
  BY <1>1, <1>2 DEF NoDupFirsts
<1>4. Head(s)[1] \notin Firsts(Tail(s))
  BY <1>1, <1>2 DEF NoDupFirsts, Items, Firsts
<1> QED
  BY <1>3, <1>4

\* What a storage call does to the table, whether it reports success or not.
LEMMA WriteRow ==
  ASSUME NEW c \in Commands, NEW status \in Statuses,
         row \in [Commands -> Statuses],
         WriteOk(c, status) \/ WriteError(c, status)
  PROVE  /\ row' \in [Commands -> Statuses]
         /\ \A d \in Commands \ {c} : row'[d] = row[d]
         /\ row'[c] \in {row[c], status}
         /\ WriteOk(c, status) => row'[c] = status
<1>1. PICK s \in {row[c], status} : row' = [row EXCEPT ![c] = s]
  BY DEF WriteOk, WriteError
<1>2. WriteOk(c, status) => row' = [row EXCEPT ![c] = status]
  BY DEF WriteOk
<1> QED
  BY <1>1, <1>2

-----------------------------------------------------------------------------
\* The invariant holds when the runtime starts.
LEMMA InitIInv == Init => IInv
<1> SUFFICES ASSUME Init PROVE IInv
  OBVIOUS
<1> USE PipelineAssumption, NoItems DEF Init
<1>1. TypeOK
  BY DEF TypeOK, Statuses, Owners
<1>2. StageInv
  BY DEF StageInv, Commands
<1>3. RowInv /\ AnswerInv /\ TaskInv
  BY DEF RowInv, AnswerInv, TaskInv
<1>4. WriteAheadAudit /\ StatusTruthful /\ PublishedOnce /\ NoOrphans
  BY DEF WriteAheadAudit, StatusTruthful, PublishedOnce, NoOrphans,
            NoDup
<1> QED
  BY <1>1, <1>2, <1>3, <1>4 DEF IInv
-----------------------------------------------------------------------------
(* Every action preserves the invariant.                                   *)

\* ExecuteCommand preserves the invariant.
LEMMA ExecuteCommandKeeps ==
  ASSUME IInv, NEW c \in ApiCommands, ExecuteCommand(c)
  PROVE  IInv'
<1> USE PipelineAssumption DEF IInv, ExecuteCommand, Move, apiVars, procVars,
        workVars, consVars, outcomeVars
<1>t. /\ row \in [Commands -> Statuses]
      /\ stage \in [Commands -> {"new"} \cup Owners \cup Ends]
      /\ answer \in [Commands -> {"none", "queued", "error"}]
  BY DEF TypeOK
<1>1. TypeOK'
  <2>1. (stage \in [Commands -> {"new"} \cup Owners \cup Ends])'
    BY <1>t DEF TypeOK, Owners, Ends, Commands
  <2> QED
    BY <2>1 DEF TypeOK
<1>2. StageInv'
  BY <1>t DEF StageInv, Commands
<1>3. RowInv'
  BY <1>t DEF StageInv, RowInv, Commands
<1>4. AnswerInv'
  BY <1>t DEF StageInv, RowInv, AnswerInv, Commands, Terminal
<1> QED
  BY <1>1, <1>2, <1>3, <1>4 DEF TaskInv, EngineStopping, WriteAheadAudit,
     StatusTruthful, PublishedOnce, NoOrphans

\* RecordExecution preserves the invariant.
LEMMA RecordExecutionKeeps ==
  ASSUME IInv, NEW c \in ApiCommands, RecordExecution(c)
  PROVE  IInv' /\ ResultsStay
<1> USE PipelineAssumption DEF IInv, RecordExecution, apiVars, procVars,
        workVars, consVars, outcomeVars
<1>t. /\ row \in [Commands -> Statuses]
      /\ stage \in [Commands -> {"new"} \cup Owners \cup Ends]
      /\ answer \in [Commands -> {"none", "queued", "error"}]
  BY DEF TypeOK
<1>0. /\ c \in Commands /\ row[c] = "none" /\ c \notin Items(wire)
      /\ answer[c] # "queued" /\ stage[c] = "recording"
  BY DEF RowInv, AnswerInv, Commands, Statuses
<1>a. /\ row' \in [Commands -> Statuses]
      /\ \A d \in Commands \ {c} : row'[d] = row[d]
      /\ \/ /\ row'[c] = "queued" /\ answer' = answer
            /\ stage' = [stage EXCEPT ![c] = "recorded"]
         \/ /\ row'[c] \in {"none", "queued"}
            /\ stage' = [stage EXCEPT ![c] = "refused"]
            /\ answer' = [answer EXCEPT ![c] = "error"]
  BY <1>0, <1>t, WriteRow DEF Move, Statuses
<1>w. Items(wire) \subseteq Commands
  BY DEF TypeOK, Items
<1>1. TypeOK'
  <2>1. (row \in [Commands -> Statuses])'
    BY <1>t, <1>0, <1>a DEF TypeOK, Statuses, Commands
  <2>2. (stage \in [Commands -> {"new"} \cup Owners \cup Ends])'
    BY <1>t, <1>0, <1>a, ZenonT(40) DEF TypeOK, Owners, Ends, Commands
  <2>3. (answer \in [Commands -> {"none", "queued", "error"}])'
    BY <1>t, <1>0, <1>a DEF TypeOK, Commands
  <2> QED
    BY <2>1, <2>2, <2>3 DEF TypeOK
<1>2. StageInv'
  BY <1>t, <1>0, <1>a DEF StageInv, Commands
<1>3. RowInv'
  BY <1>t, <1>0, <1>a DEF StageInv, RowInv, Commands
<1>4. AnswerInv'
  BY <1>t, <1>0, <1>a DEF StageInv, RowInv, AnswerInv, Commands, Terminal
<1>5. WriteAheadAudit'
  BY <1>t, <1>0, <1>a, <1>w DEF StageInv, RowInv, WriteAheadAudit
<1>6. StatusTruthful'
  BY <1>t, <1>0, <1>a, <1>w DEF StageInv, RowInv, StatusTruthful, Terminal
<1>7. ResultsStay
  BY <1>t, <1>0, <1>a DEF ResultsStay, StageInv, RowInv, Terminal
<1> QED
  BY <1>1, <1>2, <1>3, <1>4, <1>5, <1>6, <1>7 DEF TaskInv, EngineStopping,
     PublishedOnce, NoOrphans

\* EnqueueRequest preserves the invariant.
LEMMA EnqueueRequestKeeps ==
  ASSUME IInv, NEW c \in ApiCommands, EnqueueRequest(c)
  PROVE  IInv'
<1> USE PipelineAssumption DEF IInv, EnqueueRequest, apiVars, procVars,
        workVars, consVars, outcomeVars
<1>t. /\ row \in [Commands -> Statuses]
      /\ stage \in [Commands -> {"new"} \cup Owners \cup Ends]
      /\ answer \in [Commands -> {"none", "queued", "error"}]
  BY DEF TypeOK
<1>0. c \in Commands /\ c \notin Items(queue) /\ stage[c] = "recorded"
  BY DEF StageInv, Commands
<1>a. \/ /\ queue' \in Seq(Commands) /\ accepted' \in Seq(Commands)
         /\ Items(queue') = Items(queue) \cup {c} /\ NoDup(queue')
         /\ answer' = [answer EXCEPT ![c] = "queued"] /\ queueOpen
         /\ stage' = [stage EXCEPT ![c] = "queue"]
      \/ /\ queue' = queue /\ accepted' = accepted
         /\ answer' = answer
         /\ stage' = [stage EXCEPT ![c] = "rejected"]
  <2>1. queue \in Seq(Commands) /\ accepted \in Seq(Commands) /\ NoDup(queue)
    BY DEF TypeOK, StageInv
  <2>2. /\ Append(queue, c) \in Seq(Commands)
        /\ Append(accepted, c) \in Seq(Commands)
        /\ Items(Append(queue, c)) = Items(queue) \cup {c}
        /\ NoDup(Append(queue, c))
    BY <1>0, <2>1, AppendItems, AppendNoDup
  <2>3. CASE TryEnqueue(c)
    BY <2>2, <2>3 DEF TryEnqueue, QueueAccepts, Move
  <2>4. CASE ~TryEnqueue(c)
    BY <2>4 DEF Move
  <2> QED
    BY <2>3, <2>4
<1>1. TypeOK'
  <2>1. (stage \in [Commands -> {"new"} \cup Owners \cup Ends])'
    BY <1>t, <1>0, <1>a DEF TypeOK, Owners, Ends, Commands
  <2>2. (queue \in Seq(Commands))'
    BY <1>t, <1>0, <1>a DEF TypeOK, Commands
  <2>3. (accepted \in Seq(Commands))'
    BY <1>t, <1>0, <1>a DEF TypeOK, Commands
  <2>4. (answer \in [Commands -> {"none", "queued", "error"}])'
    BY <1>t, <1>0, <1>a DEF TypeOK, Commands
  <2> QED
    BY <2>1, <2>2, <2>3, <2>4, <1>0, <1>a DEF TypeOK
<1>2. StageInv'
  BY <1>t, <1>0, <1>a DEF StageInv, Commands
<1>3. RowInv'
  BY <1>t, <1>0, <1>a DEF StageInv, RowInv, Commands
<1>4. AnswerInv'
  BY <1>t, <1>0, <1>a DEF StageInv, RowInv, AnswerInv, Commands, Terminal
<1>5. NoOrphans'
  BY <1>t, <1>0, <1>a DEF NoOrphans, TaskInv
<1> QED
  BY <1>1, <1>2, <1>3, <1>4, <1>5 DEF TaskInv, EngineStopping,
     WriteAheadAudit, StatusTruthful, PublishedOnce

\* MarkRejected preserves the invariant.
LEMMA MarkRejectedKeeps ==
  ASSUME IInv, NEW c \in ApiCommands, MarkRejected(c)
  PROVE  IInv' /\ ResultsStay
<1> USE PipelineAssumption DEF IInv, MarkRejected, apiVars, procVars,
        workVars, consVars, outcomeVars
<1>t. /\ row \in [Commands -> Statuses]
      /\ stage \in [Commands -> {"new"} \cup Owners \cup Ends]
      /\ answer \in [Commands -> {"none", "queued", "error"}]
  BY DEF TypeOK
<1>0. /\ c \in Commands /\ row[c] = "queued" /\ c \notin Items(wire)
      /\ stage[c] = "rejected"
  BY DEF RowInv, Commands
<1>a. /\ row' \in [Commands -> Statuses]
      /\ \A d \in Commands \ {c} : row'[d] = row[d]
      /\ row'[c] \in {"queued", "failed"}
      /\ stage' = [stage EXCEPT ![c] = "finished"]
  BY <1>0, <1>t, WriteRow DEF Updated, Move, Statuses
<1>w. Items(wire) \subseteq Commands
  BY DEF TypeOK, Items
<1>1. TypeOK'
  <2>1. (row \in [Commands -> Statuses])'
    BY <1>t, <1>0, <1>a DEF TypeOK, Statuses, Commands
  <2>2. (stage \in [Commands -> {"new"} \cup Owners \cup Ends])'
    BY <1>t, <1>0, <1>a DEF TypeOK, Owners, Ends, Commands
  <2>3. (answer \in [Commands -> {"none", "queued", "error"}])'
    BY <1>t, <1>0, <1>a DEF TypeOK, Commands
  <2> QED
    BY <2>1, <2>2, <2>3, <1>0, <1>a DEF TypeOK
<1>2. StageInv'
  BY <1>t, <1>0, <1>a DEF StageInv, Commands
<1>3. RowInv'
  BY <1>t, <1>0, <1>a DEF StageInv, RowInv, Commands
<1>4. AnswerInv'
  BY <1>t, <1>0, <1>a DEF StageInv, RowInv, AnswerInv, Commands, Terminal
<1>5. WriteAheadAudit'
  BY <1>t, <1>0, <1>a, <1>w DEF StageInv, RowInv, WriteAheadAudit
<1>6. StatusTruthful'
  BY <1>t, <1>0, <1>a, <1>w DEF StageInv, RowInv, StatusTruthful, Terminal
<1>7. ResultsStay
  BY <1>t, <1>0, <1>a DEF ResultsStay, StageInv, RowInv, Terminal
<1> QED
  BY <1>1, <1>2, <1>3, <1>4, <1>5, <1>6, <1>7 DEF TaskInv, EngineStopping,
     PublishedOnce, NoOrphans

\* Disconnect preserves the invariant.
LEMMA DisconnectKeeps ==
  ASSUME IInv, NEW c \in ApiCommands, Disconnect(c)
  PROVE  IInv' /\ ResultsStay
<1> USE PipelineAssumption DEF IInv, Disconnect, apiVars, procVars, workVars,
        consVars, outcomeVars
<1>t. /\ row \in [Commands -> Statuses]
      /\ stage \in [Commands -> {"new"} \cup Owners \cup Ends]
      /\ answer \in [Commands -> {"none", "queued", "error"}]
  BY DEF TypeOK
<1>0. /\ c \in Commands /\ c \notin Items(wire) /\ answer[c] # "queued"
      /\ stage[c] \in {"recording", "rejected"}
      /\ row[c] = IF stage[c] = "recording" THEN "none" ELSE "queued"
  BY DEF RowInv, AnswerInv, Commands
<1>a. /\ row' \in [Commands -> Statuses]
      /\ \A d \in Commands \ {c} : row'[d] = row[d]
      /\ row'[c] \in {"none", "queued", "failed"} /\ storage
      /\ stage' = [stage EXCEPT ![c] = "abandoned"]
  <2>1. CutOff(c) \subseteq {"none", "queued", "failed"} /\ storage
    BY <1>0 DEF RowInv, CutOff, Updated
  <2>2. PICK st \in CutOff(c) : row' = [row EXCEPT ![c] = st]
    OBVIOUS
  <2> QED
    BY <1>0, <1>t, <2>1, <2>2 DEF Move, Statuses
<1>w. Items(wire) \subseteq Commands
  BY DEF TypeOK, Items
<1>1. TypeOK'
  <2>1. (row \in [Commands -> Statuses])'
    BY <1>t, <1>0, <1>a DEF TypeOK, Statuses, Commands
  <2>2. (stage \in [Commands -> {"new"} \cup Owners \cup Ends])'
    BY <1>t, <1>0, <1>a DEF TypeOK, Owners, Ends, Commands
  <2> QED
    BY <2>1, <2>2 DEF TypeOK
<1>2. StageInv'
  BY <1>t, <1>0, <1>a DEF StageInv, Commands
<1>3. RowInv'
  BY <1>t, <1>0, <1>a DEF StageInv, RowInv, Commands
<1>4. AnswerInv'
  BY <1>t, <1>0, <1>a DEF StageInv, RowInv, AnswerInv, Commands, Terminal
<1>5. WriteAheadAudit'
  BY <1>t, <1>0, <1>a, <1>w DEF StageInv, RowInv, WriteAheadAudit
<1>6. StatusTruthful'
  BY <1>t, <1>0, <1>a, <1>w DEF StageInv, RowInv, StatusTruthful, Terminal
<1>7. ResultsStay
  BY <1>t, <1>0, <1>a DEF ResultsStay, StageInv, RowInv, Terminal
<1> QED
  BY <1>1, <1>2, <1>3, <1>4, <1>5, <1>6, <1>7 DEF TaskInv, EngineStopping,
     PublishedOnce, NoOrphans

\* DispatchRule preserves the invariant.
LEMMA DispatchRuleKeeps ==
  ASSUME IInv, NEW c \in RuleCommands, DispatchRule(c)
  PROVE  IInv'
<1> USE PipelineAssumption DEF IInv, DispatchRule, apiVars, procVars,
        workVars, consVars, outcomeVars
<1>t. /\ row \in [Commands -> Statuses]
      /\ stage \in [Commands -> {"new"} \cup Owners \cup Ends]
      /\ answer \in [Commands -> {"none", "queued", "error"}]
  BY DEF TypeOK
<1>0. c \in Commands /\ c \notin Items(queue) /\ stage[c] = "new"
  BY DEF StageInv, Commands
<1>a. \/ /\ queue' \in Seq(Commands) /\ accepted' \in Seq(Commands)
         /\ Items(queue') = Items(queue) \cup {c} /\ NoDup(queue')
         /\ answer' = [answer EXCEPT ![c] = "queued"] /\ queueOpen
         /\ stage' = [stage EXCEPT ![c] = "queue"]
      \/ /\ queue' = queue /\ accepted' = accepted
         /\ answer' = [answer EXCEPT ![c] = "error"]
         /\ stage' = [stage EXCEPT ![c] = "refused"]
  <2>1. queue \in Seq(Commands) /\ accepted \in Seq(Commands) /\ NoDup(queue)
    BY DEF TypeOK, StageInv
  <2>2. /\ Append(queue, c) \in Seq(Commands)
        /\ Append(accepted, c) \in Seq(Commands)
        /\ Items(Append(queue, c)) = Items(queue) \cup {c}
        /\ NoDup(Append(queue, c))
    BY <1>0, <2>1, AppendItems, AppendNoDup
  <2>3. CASE TryEnqueue(c)
    BY <2>2, <2>3 DEF TryEnqueue, QueueAccepts, Move
  <2>4. CASE ~TryEnqueue(c)
    BY <2>4 DEF Move
  <2> QED
    BY <2>3, <2>4
<1>1. TypeOK'
  <2>1. (stage \in [Commands -> {"new"} \cup Owners \cup Ends])'
    <3>1. "queue" \in Owners /\ "refused" \in Ends
      BY DEF Owners, Ends
    <3>2. \/ stage' = [stage EXCEPT ![c] = "queue"]
          \/ stage' = [stage EXCEPT ![c] = "refused"]
      BY <1>a
    <3> QED
      BY <1>t, <1>0, <3>1, <3>2
  <2>2. (queue \in Seq(Commands))'
    BY <1>t, <1>0, <1>a DEF TypeOK, Commands
  <2>3. (accepted \in Seq(Commands))'
    BY <1>t, <1>0, <1>a DEF TypeOK, Commands
  <2>4. (answer \in [Commands -> {"none", "queued", "error"}])'
    BY <1>t, <1>0, <1>a DEF TypeOK, Commands
  <2> QED
    BY <2>1, <2>2, <2>3, <2>4 DEF TypeOK
<1>2. StageInv'
  BY <1>t, <1>0, <1>a DEF StageInv, Commands
<1>3. RowInv'
  BY <1>t, <1>0, <1>a DEF StageInv, RowInv, Commands
<1>4. AnswerInv'
  BY <1>t, <1>0, <1>a DEF StageInv, RowInv, AnswerInv, Commands, Terminal
<1>5. NoOrphans'
  BY <1>t, <1>0, <1>a DEF NoOrphans, TaskInv
<1> QED
  BY <1>1, <1>2, <1>3, <1>4, <1>5 DEF TaskInv, EngineStopping,
     WriteAheadAudit, StatusTruthful, PublishedOnce

\* ProcReceive preserves the invariant.
LEMMA ProcReceiveKeeps ==
  ASSUME IInv, ProcReceive
  PROVE  IInv'
<1> USE PipelineAssumption DEF IInv, ProcReceive, apiVars, procVars,
        workVars, consVars, outcomeVars
<1>t. /\ row \in [Commands -> Statuses]
      /\ stage \in [Commands -> {"new"} \cup Owners \cup Ends]
      /\ answer \in [Commands -> {"none", "queued", "error"}]
  BY DEF TypeOK
<1>0. queue \in Seq(Commands) /\ NoDup(queue) /\ queue # <<>>
  BY DEF TypeOK, StageInv
<1>a. /\ Head(queue) \in Commands /\ queue' \in Seq(Commands)
      /\ Items(queue) = {Head(queue)} \cup Items(queue')
      /\ NoDup(queue') /\ Head(queue) \notin Items(queue')
  BY <1>0, TailItems, TailNoDup
<1>b. stage' = [stage EXCEPT ![Head(queue)] = "processor"]
  BY DEF Move
<1>1. TypeOK'
  <2>1. (queue \in Seq(Commands))'
    BY <1>t, <1>a, <1>b DEF TypeOK
  <2>2. (procCmd \in Commands \cup {None})'
    BY <1>t, <1>a, <1>b DEF TypeOK
  <2>3. (stage \in [Commands -> {"new"} \cup Owners \cup Ends])'
    BY <1>t, <1>a, <1>b DEF TypeOK, Owners, Ends
  <2> QED
    BY <2>1, <2>2, <2>3 DEF TypeOK
<1>2. StageInv'
  BY <1>t, <1>a, <1>b DEF StageInv, Commands
<1>3. RowInv'
  BY <1>t, <1>a, <1>b DEF StageInv, RowInv, Commands
<1>4. AnswerInv'
  BY <1>t, <1>a, <1>b DEF StageInv, RowInv, AnswerInv, Commands, Terminal
<1>5. TaskInv'
  BY <1>t, <1>a, <1>b DEF TaskInv, EngineStopping, Signalled
<1>6. NoOrphans'
  BY <1>t, <1>a, <1>b DEF NoOrphans, TaskInv
<1> QED
  BY <1>1, <1>2, <1>3, <1>4, <1>5, <1>6 DEF WriteAheadAudit, StatusTruthful,
     PublishedOnce

\* ProcSeesShutdown preserves the invariant.
LEMMA ProcSeesShutdownKeeps ==
  ASSUME IInv, ProcSeesShutdown
  PROVE  IInv'
<1> USE PipelineAssumption DEF IInv, ProcSeesShutdown, apiVars, procVars,
        workVars, consVars, outcomeVars
<1>1. TypeOK'
  <2>1. (queueOpen \in BOOLEAN)'
    BY DEF TypeOK
  <2> QED
    BY <2>1 DEF TypeOK
<1>2. TaskInv'
  BY DEF TaskInv, EngineStopping, Signalled
<1> QED
  BY <1>1, <1>2 DEF StageInv, RowInv, AnswerInv, WriteAheadAudit,
     StatusTruthful, PublishedOnce, NoOrphans

\* ProcExits preserves the invariant.
LEMMA ProcExitsKeeps ==
  ASSUME IInv, ProcExits
  PROVE  IInv'
<1> USE PipelineAssumption DEF IInv, ProcExits, apiVars, procVars, workVars,
        consVars, outcomeVars
<1>1. TypeOK'
  <2> QED
    BY DEF TypeOK
<1>2. StageInv'
  BY DEF StageInv, Commands
<1>3. RowInv'
  BY DEF StageInv, RowInv, Commands
<1>4. TaskInv'
  BY DEF TaskInv, EngineStopping, Signalled
<1>5. NoOrphans'
  BY DEF NoOrphans, TaskInv
<1> QED
  BY <1>1, <1>2, <1>3, <1>4, <1>5 DEF AnswerInv, WriteAheadAudit,
     StatusTruthful, PublishedOnce

\* ProcRender preserves the invariant.
LEMMA ProcRenderKeeps ==
  ASSUME IInv, ProcRender
  PROVE  IInv'
<1> USE PipelineAssumption DEF IInv, ProcRender, apiVars, procVars, workVars,
        consVars, outcomeVars
<1>1. TypeOK'
  <2> QED
    BY DEF TypeOK
<1>2. StageInv'
  BY DEF StageInv, Commands
<1>3. RowInv'
  BY DEF StageInv, RowInv, Commands
<1>4. TaskInv'
  BY DEF TaskInv, EngineStopping, Signalled
<1>5. NoOrphans'
  BY DEF NoOrphans, TaskInv
<1> QED
  BY <1>1, <1>2, <1>3, <1>4, <1>5 DEF AnswerInv, WriteAheadAudit,
     StatusTruthful, PublishedOnce

\* ProcRecord preserves the invariant.
LEMMA ProcRecordKeeps ==
  ASSUME IInv, ProcRecord
  PROVE  IInv' /\ ResultsStay
<1> USE PipelineAssumption DEF IInv, ProcRecord, apiVars, procVars, workVars,
        consVars, outcomeVars
<1>t. /\ row \in [Commands -> Statuses]
      /\ stage \in [Commands -> {"new"} \cup Owners \cup Ends]
      /\ answer \in [Commands -> {"none", "queued", "error"}]
  BY DEF TypeOK
<1>0. /\ procCmd \in Commands /\ procCmd \notin Items(wire)
      /\ stage[procCmd] = "processor" /\ row[procCmd] = "none"
      /\ procCmd \in RuleCommands
  BY DEF TypeOK, StageInv, RowInv
<1>a. /\ row' \in [Commands -> Statuses]
      /\ \A d \in Commands \ {procCmd} : row'[d] = row[d]
      /\ row'[procCmd] \in {"none", "queued"}
      /\ proc' = "enqueue" => row'[procCmd] = "queued"
      /\ proc' \in {"enqueue", "fail"}
      /\ row' = row \/ storage
      /\ updateFailed \subseteq updateFailed'
      /\ updateFailed' \subseteq updateFailed \cup {procCmd}
  BY <1>0, <1>t, WriteRow DEF Statuses
<1>w. Items(wire) \subseteq Commands
  BY DEF TypeOK, Items
<1>1. TypeOK'
  <2>1. (row \in [Commands -> Statuses])'
    BY <1>t, <1>0, <1>a DEF TypeOK, Statuses
  <2>2. (updateFailed \subseteq Commands)'
    BY <1>t, <1>0, <1>a DEF TypeOK
  <2> QED
    BY <2>1, <2>2, <1>0, <1>a DEF TypeOK
<1>2. StageInv'
  BY <1>t, <1>0, <1>a DEF StageInv, Commands
<1>3. RowInv'
  BY <1>t, <1>0, <1>a DEF StageInv, RowInv, Commands
<1>4. AnswerInv'
  BY <1>t, <1>0, <1>a DEF StageInv, RowInv, AnswerInv, Commands, Terminal
<1>5. TaskInv'
  BY <1>t, <1>0, <1>a DEF TaskInv, EngineStopping, Signalled
<1>6. WriteAheadAudit'
  BY <1>t, <1>0, <1>a, <1>w DEF StageInv, RowInv, WriteAheadAudit
<1>7. StatusTruthful'
  BY <1>t, <1>0, <1>a, <1>w DEF StageInv, RowInv, StatusTruthful, Terminal
<1>8. NoOrphans'
  BY <1>t, <1>0, <1>a DEF NoOrphans, TaskInv
<1>9. ResultsStay
  BY <1>t, <1>0, <1>a DEF ResultsStay, StageInv, RowInv, Terminal
<1> QED
  BY <1>1, <1>2, <1>3, <1>4, <1>5, <1>6, <1>7, <1>8, <1>9 DEF PublishedOnce

\* ProcEnqueue preserves the invariant.
LEMMA ProcEnqueueKeeps ==
  ASSUME IInv, ProcEnqueue
  PROVE  IInv'
<1> USE PipelineAssumption DEF IInv, ProcEnqueue, apiVars, procVars,
        workVars, consVars, outcomeVars
<1>t. /\ row \in [Commands -> Statuses]
      /\ stage \in [Commands -> {"new"} \cup Owners \cup Ends]
      /\ answer \in [Commands -> {"none", "queued", "error"}]
  BY DEF TypeOK
<1>0. /\ procCmd \in Commands /\ procCmd \notin Items(bus) /\ proc = "enqueue"
      /\ stage[procCmd] = "processor" /\ row[procCmd] = "queued"
  BY DEF TypeOK, StageInv, RowInv
<1>a. \/ /\ bus' \in Seq(Commands) /\ NoDup(bus') /\ work # "exited"
         /\ Items(bus') = Items(bus) \cup {procCmd}
         /\ proc' = "select" /\ procCmd' = None
         /\ stage' = [stage EXCEPT ![procCmd] = "bus"]
      \/ bus' = bus /\ stage' = stage /\ procCmd' = procCmd /\ proc' = "fail"
  <2>1. bus \in Seq(Commands) /\ NoDup(bus)
    BY DEF TypeOK, StageInv
  <2>2. /\ Append(bus, procCmd) \in Seq(Commands) /\ NoDup(Append(bus, procCmd))
        /\ Items(Append(bus, procCmd)) = Items(bus) \cup {procCmd}
    BY <1>0, <2>1, AppendItems, AppendNoDup
  <2> QED
    BY <2>2 DEF Move
<1>b. UNCHANGED <<storage, row, apiVars, queue, queueOpen, workVars,
                  outcomeVars, consVars, driver, updateFailed>>
  OBVIOUS
<1> HIDE DEF ProcEnqueue
<1>1. TypeOK'
  <2>1. (bus \in Seq(Commands))'
    BY <1>t, <1>0, <1>a, <1>b DEF TypeOK
  <2>2. (stage \in [Commands -> {"new"} \cup Owners \cup Ends])'
    BY <1>t, <1>0, <1>a, <1>b DEF TypeOK, Owners, Ends
  <2>3. (procCmd \in Commands \cup {None})'
    BY <1>t, <1>0, <1>a, <1>b DEF TypeOK
  <2> QED
    BY <2>1, <2>2, <2>3, <1>0, <1>a, <1>b DEF TypeOK
<1>2. StageInv'
  BY <1>t, <1>0, <1>a, <1>b DEF StageInv, Commands
<1>3. RowInv'
  BY <1>t, <1>0, <1>a, <1>b DEF StageInv, RowInv, Commands
<1>4. AnswerInv'
  BY <1>t, <1>0, <1>a, <1>b DEF StageInv, RowInv, AnswerInv, Commands,
     Terminal
<1>5. TaskInv'
  BY <1>t, <1>0, <1>a, <1>b DEF TaskInv, EngineStopping, Signalled
<1>6. NoOrphans'
  BY <1>t, <1>0, <1>a, <1>b DEF NoOrphans, TaskInv
<1> QED
  BY <1>1, <1>2, <1>3, <1>4, <1>5, <1>6, <1>b DEF WriteAheadAudit,
     StatusTruthful, PublishedOnce

\* ProcFail preserves the invariant.
LEMMA ProcFailKeeps ==
  ASSUME IInv, ProcFail
  PROVE  IInv' /\ ResultsStay
<1> USE PipelineAssumption DEF IInv, ProcFail, apiVars, procVars, workVars,
        consVars, outcomeVars
<1>t. /\ row \in [Commands -> Statuses]
      /\ stage \in [Commands -> {"new"} \cup Owners \cup Ends]
      /\ answer \in [Commands -> {"none", "queued", "error"}]
  BY DEF TypeOK
<1>0. /\ procCmd \in Commands /\ procCmd \notin Items(wire)
      /\ stage[procCmd] = "processor" /\ row[procCmd] \in {"none", "queued"}
      /\ procCmd \in ApiCommands => row[procCmd] = "queued"
      /\ ~storage => row[procCmd] = "none"
  BY DEF TypeOK, StageInv, RowInv
<1>a. /\ row' \in [Commands -> Statuses]
      /\ \A d \in Commands \ {procCmd} : row'[d] = row[d]
      /\ row'[procCmd] \in {"none", "queued", "failed"}
      /\ row'[procCmd] = "none" <=> row[procCmd] = "none"
      /\ row'[procCmd] = "queued" => procCmd \in updateFailed'
      /\ updateFailed \subseteq updateFailed'
      /\ updateFailed' \subseteq updateFailed \cup {procCmd}
      /\ stage' = [stage EXCEPT ![procCmd] = "finished"]
  BY <1>0, <1>t, WriteRow DEF Updated, Move, Statuses
<1>w. Items(wire) \subseteq Commands
  BY DEF TypeOK, Items
<1>1. TypeOK'
  <2>1. (row \in [Commands -> Statuses])'
    BY <1>t, <1>0, <1>a DEF TypeOK, Statuses
  <2>2. (stage \in [Commands -> {"new"} \cup Owners \cup Ends])'
    BY <1>t, <1>0, <1>a DEF TypeOK, Owners, Ends
  <2>3. (procCmd \in Commands \cup {None})'
    BY <1>t, <1>0, <1>a DEF TypeOK
  <2>4. (updateFailed \subseteq Commands)'
    BY <1>t, <1>0, <1>a DEF TypeOK
  <2> QED
    BY <2>1, <2>2, <2>3, <2>4 DEF TypeOK
<1>2. StageInv'
  BY <1>t, <1>0, <1>a DEF StageInv, Commands
<1>3. RowInv'
  BY <1>t, <1>0, <1>a DEF StageInv, RowInv, Commands
<1>4. AnswerInv'
  BY <1>t, <1>0, <1>a DEF StageInv, RowInv, AnswerInv, Commands, Terminal
<1>5. TaskInv'
  BY <1>t, <1>0, <1>a DEF TaskInv, EngineStopping, Signalled
<1>6. WriteAheadAudit'
  BY <1>t, <1>0, <1>a, <1>w DEF StageInv, RowInv, WriteAheadAudit
<1>7. StatusTruthful'
  BY <1>t, <1>0, <1>a, <1>w DEF StageInv, RowInv, StatusTruthful, Terminal
<1>8. NoOrphans'
  BY <1>t, <1>0, <1>a DEF NoOrphans, TaskInv
<1>9. ResultsStay
  BY <1>t, <1>0, <1>a DEF ResultsStay, StageInv, RowInv, Terminal
<1> QED
  BY <1>1, <1>2, <1>3, <1>4, <1>5, <1>6, <1>7, <1>8, <1>9 DEF PublishedOnce

\* WorkReceive preserves the invariant.
LEMMA WorkReceiveKeeps ==
  ASSUME IInv, WorkReceive
  PROVE  IInv'
<1> USE PipelineAssumption DEF IInv, WorkReceive, apiVars, procVars,
        workVars, consVars, outcomeVars
<1>t. /\ row \in [Commands -> Statuses]
      /\ stage \in [Commands -> {"new"} \cup Owners \cup Ends]
      /\ answer \in [Commands -> {"none", "queued", "error"}]
  BY DEF TypeOK
<1>0. bus \in Seq(Commands) /\ NoDup(bus) /\ bus # <<>>
  BY DEF TypeOK, StageInv
<1>a. /\ Head(bus) \in Commands /\ bus' \in Seq(Commands)
      /\ Items(bus) = {Head(bus)} \cup Items(bus')
      /\ NoDup(bus') /\ Head(bus) \notin Items(bus')
  BY <1>0, TailItems, TailNoDup
<1>b. stage' = [stage EXCEPT ![Head(bus)] = "worker"]
  BY DEF Move
<1>1. TypeOK'
  <2>1. (bus \in Seq(Commands))'
    BY <1>t, <1>a, <1>b DEF TypeOK
  <2>2. (workCmd \in Commands \cup {None})'
    BY <1>t, <1>a, <1>b DEF TypeOK
  <2>3. (stage \in [Commands -> {"new"} \cup Owners \cup Ends])'
    BY <1>t, <1>a, <1>b DEF TypeOK, Owners, Ends
  <2> QED
    BY <2>1, <2>2, <2>3 DEF TypeOK
<1>2. StageInv'
  BY <1>t, <1>a, <1>b DEF StageInv, Commands
<1>3. RowInv'
  BY <1>t, <1>a, <1>b DEF StageInv, RowInv, Commands
<1>4. AnswerInv'
  BY <1>t, <1>a, <1>b DEF StageInv, RowInv, AnswerInv, Commands, Terminal
<1>5. TaskInv'
  BY <1>t, <1>a, <1>b DEF TaskInv, EngineStopping, Signalled
<1>6. NoOrphans'
  BY <1>t, <1>a, <1>b DEF NoOrphans, TaskInv
<1> QED
  BY <1>1, <1>2, <1>3, <1>4, <1>5, <1>6 DEF WriteAheadAudit, StatusTruthful,
     PublishedOnce

\* WorkPublish preserves the invariant.
LEMMA WorkPublishKeeps ==
  ASSUME IInv, WorkPublish
  PROVE  IInv'
<1> USE PipelineAssumption DEF IInv, WorkPublish, apiVars, procVars,
        workVars, consVars, outcomeVars
<1>t. /\ row \in [Commands -> Statuses]
      /\ stage \in [Commands -> {"new"} \cup Owners \cup Ends]
      /\ answer \in [Commands -> {"none", "queued", "error"}]
  BY DEF TypeOK
<1>0. /\ workCmd \in Commands /\ workCmd \notin Firsts(outcomes)
      /\ workCmd \notin Items(wire) /\ stage[workCmd] = "worker"
      /\ row[workCmd] = "queued" /\ work = "publish"
  BY DEF TypeOK, StageInv, RowInv
<1>a. PICK status \in Terminal :
        /\ wire' = IF status = "published" THEN Append(wire, workCmd) ELSE wire
        /\ \/ /\ outcomes' = Append(outcomes, <<workCmd, status>>)
              /\ stage' = [stage EXCEPT ![workCmd] = "outcome"]
              /\ outcomesOpen
           \/ /\ outcomes' = outcomes
              /\ stage' = [stage EXCEPT ![workCmd] = "unreported"]
  BY DEF Report, Move
<1>b. /\ wire' \in Seq(Commands) /\ NoDup(wire')
      /\ Items(wire') =
           IF status = "published" THEN Items(wire) \cup {workCmd}
                                   ELSE Items(wire)
  <2>1. wire \in Seq(Commands) /\ NoDup(wire)
    BY DEF TypeOK, PublishedOnce, NoDup
  <2>2. /\ Append(wire, workCmd) \in Seq(Commands)
        /\ NoDup(Append(wire, workCmd))
        /\ Items(Append(wire, workCmd)) = Items(wire) \cup {workCmd}
    BY <1>0, <2>1, AppendItems, AppendNoDup
  <2> QED
    BY <1>a, <2>1, <2>2
<1> DEFINE o == <<workCmd, status>>
<1>o. o \in Outcome /\ o[1] = workCmd /\ o[2] = status
  BY <1>0, <1>a DEF Outcome
<1>x. \/ outcomes' = Append(outcomes, o)
           /\ stage' = [stage EXCEPT ![workCmd] = "outcome"] /\ outcomesOpen
      \/ outcomes' = outcomes
           /\ stage' = [stage EXCEPT ![workCmd] = "unreported"]
  BY <1>a
<1> HIDE DEF o
<1>c. \/ /\ outcomes' \in Seq(Outcome) /\ NoDupFirsts(outcomes')
         /\ Items(outcomes') = Items(outcomes) \cup {o}
         /\ Firsts(outcomes') = Firsts(outcomes) \cup {workCmd}
         /\ stage' = [stage EXCEPT ![workCmd] = "outcome"] /\ outcomesOpen
      \/ outcomes' = outcomes
           /\ stage' = [stage EXCEPT ![workCmd] = "unreported"]
  <2>1. outcomes \in Seq(Outcome) /\ NoDupFirsts(outcomes)
    BY DEF TypeOK, StageInv
  <2>2. /\ Append(outcomes, o) \in Seq(Outcome)
        /\ NoDupFirsts(Append(outcomes, o))
        /\ Items(Append(outcomes, o)) = Items(outcomes) \cup {o}
    BY <1>0, <1>o, <2>1, AppendItems, AppendNoDupFirsts
  <2>3. Firsts(Append(outcomes, o)) = Firsts(outcomes) \cup {workCmd}
    BY <1>o, <2>2 DEF Firsts
  <2> QED
    BY <1>x, <2>2, <2>3
<1>d. /\ work' = "select" /\ workCmd' = None
      /\ UNCHANGED <<storage, row, apiVars, queue, queueOpen, procVars, bus,
                     outcomesOpen, consVars, driver, updateFailed>>
  OBVIOUS
<1>e. /\ \A p \in Items(outcomes) : p[1] # workCmd
      /\ consCmd # None => consCmd[1] # workCmd
  BY <1>0 DEF Firsts, StageInv
<1> HIDE DEF WorkPublish
<1>w. Items(wire) \subseteq Commands
  BY DEF TypeOK, Items
<1>1. TypeOK'
  <2>1. (wire \in Seq(Commands))'
    BY <1>t, <1>0, <1>b, <1>o, <1>c, <1>d, <1>e DEF TypeOK
  <2>2. (outcomes \in Seq(Outcome))'
    BY <1>t, <1>0, <1>b, <1>o, <1>c, <1>d, <1>e DEF TypeOK
  <2>3. (stage \in [Commands -> {"new"} \cup Owners \cup Ends])'
    BY <1>t, <1>0, <1>b, <1>o, <1>c, <1>d, <1>e DEF TypeOK, Owners, Ends
  <2>4. (workCmd \in Commands \cup {None})'
    BY <1>t, <1>0, <1>b, <1>o, <1>c, <1>d, <1>e DEF TypeOK
  <2> QED
    BY <2>1, <2>2, <2>3, <2>4, <1>0, <1>b, <1>o, <1>c, <1>d, <1>e DEF TypeOK
<1>2. StageInv'
  BY <1>t, <1>0, <1>b, <1>o, <1>c, <1>d, <1>e DEF StageInv, Commands, Firsts
<1>3. RowInv'
  BY <1>t, <1>0, <1>b, <1>o, <1>c, <1>d, <1>e DEF StageInv, RowInv, Commands,
     Firsts
<1>4. AnswerInv'
  BY <1>t, <1>0, <1>b, <1>o, <1>c, <1>d, <1>e DEF StageInv, RowInv,
     AnswerInv, Commands, Terminal, Firsts
<1>5. TaskInv'
  BY <1>t, <1>0, <1>b, <1>o, <1>c, <1>d, <1>e DEF TaskInv, EngineStopping,
     Signalled
<1>6. WriteAheadAudit'
  BY <1>t, <1>0, <1>b, <1>o, <1>c, <1>d, <1>e, <1>w DEF StageInv, RowInv,
     WriteAheadAudit
<1>7. StatusTruthful'
  BY <1>t, <1>0, <1>b, <1>o, <1>c, <1>d, <1>e, <1>w DEF StageInv, RowInv,
     StatusTruthful, Terminal
<1>8. PublishedOnce'
  BY <1>t, <1>0, <1>b, <1>o, <1>c, <1>d, <1>e DEF PublishedOnce, NoDup
<1>9. NoOrphans'
  BY <1>t, <1>0, <1>b, <1>o, <1>c, <1>d, <1>e DEF NoOrphans, TaskInv
<1> QED
  BY <1>1, <1>2, <1>3, <1>4, <1>5, <1>6, <1>7, <1>8, <1>9, <1>d

\* WorkExits preserves the invariant.
LEMMA WorkExitsKeeps ==
  ASSUME IInv, WorkExits
  PROVE  IInv'
<1> USE PipelineAssumption, NoItems DEF IInv, WorkExits, EngineStopping,
        apiVars, procVars, workVars, consVars, outcomeVars
<1>t. /\ row \in [Commands -> Statuses]
      /\ stage \in [Commands -> {"new"} \cup Owners \cup Ends]
      /\ answer \in [Commands -> {"none", "queued", "error"}]
  BY DEF TypeOK
<1>1. TypeOK'
  <2>1. (bus \in Seq(Commands))'
    BY <1>t DEF TypeOK
  <2>2. (stage \in [Commands -> {"new"} \cup Owners \cup Ends])'
    BY <1>t DEF TypeOK, Owners, Ends
  <2> QED
    BY <2>1, <2>2 DEF TypeOK
<1>2. StageInv'
  BY <1>t DEF StageInv, Commands, Firsts
<1>3. RowInv'
  BY <1>t DEF StageInv, RowInv, Commands, Firsts
<1>4. AnswerInv'
  BY <1>t DEF StageInv, RowInv, AnswerInv, Commands, Terminal, Firsts
<1>5. TaskInv'
  BY <1>t DEF TaskInv, EngineStopping, Signalled
<1>6. NoOrphans'
  BY <1>t DEF NoOrphans, TaskInv
<1> QED
  BY <1>1, <1>2, <1>3, <1>4, <1>5, <1>6 DEF WriteAheadAudit, StatusTruthful,
     PublishedOnce

\* ConsReceive preserves the invariant.
LEMMA ConsReceiveKeeps ==
  ASSUME IInv, ConsReceive
  PROVE  IInv'
<1> USE PipelineAssumption DEF IInv, ConsReceive, apiVars, procVars,
        workVars, consVars, outcomeVars
<1>t. /\ row \in [Commands -> Statuses]
      /\ stage \in [Commands -> {"new"} \cup Owners \cup Ends]
      /\ answer \in [Commands -> {"none", "queued", "error"}]
  BY DEF TypeOK
<1>0. outcomes \in Seq(Outcome) /\ NoDupFirsts(outcomes) /\ outcomes # <<>>
  BY DEF TypeOK, StageInv
<1>a. /\ Head(outcomes) \in Outcome /\ outcomes' \in Seq(Outcome)
      /\ Items(outcomes) = {Head(outcomes)} \cup Items(outcomes')
      /\ NoDupFirsts(outcomes')
      /\ Head(outcomes)[1] \notin Firsts(outcomes')
  BY <1>0, TailItems, TailNoDupFirsts
<1>b. /\ Firsts(outcomes) = {Head(outcomes)[1]} \cup Firsts(outcomes')
      /\ Head(outcomes)[1] \in Commands /\ Head(outcomes)[2] \in Terminal
  BY <1>a DEF Firsts, Outcome
<1>c. Head(outcomes) # None
  BY <1>a DEF Outcome, Terminal, Commands
<1>d. stage' = [stage EXCEPT ![Head(outcomes)[1]] = "consumer"]
  BY DEF Move
<1>1. TypeOK'
  <2>1. (outcomes \in Seq(Outcome))'
    BY <1>t, <1>a, <1>b, <1>c, <1>d DEF TypeOK
  <2>2. (consCmd \in Outcome \cup {None})'
    BY <1>t, <1>a, <1>b, <1>c, <1>d DEF TypeOK, Outcome
  <2>3. (stage \in [Commands -> {"new"} \cup Owners \cup Ends])'
    BY <1>t, <1>a, <1>b, <1>c, <1>d DEF TypeOK, Owners, Ends
  <2> QED
    BY <2>1, <2>2, <2>3 DEF TypeOK
<1>2. StageInv'
  BY <1>t, <1>a, <1>b, <1>c, <1>d DEF StageInv, Commands, Firsts
<1>3. RowInv'
  BY <1>t, <1>a, <1>b, <1>c, <1>d DEF StageInv, RowInv, Commands, Firsts
<1>4. AnswerInv'
  BY <1>t, <1>a, <1>b, <1>c, <1>d DEF StageInv, RowInv, AnswerInv, Commands,
     Terminal, Firsts
<1>5. TaskInv'
  BY <1>t, <1>a, <1>b, <1>c, <1>d DEF TaskInv, EngineStopping, Signalled
<1>6. NoOrphans'
  BY <1>t, <1>a, <1>b, <1>c, <1>d DEF NoOrphans, TaskInv
<1> QED
  BY <1>1, <1>2, <1>3, <1>4, <1>5, <1>6 DEF WriteAheadAudit, StatusTruthful,
     PublishedOnce

\* ConsSeesShutdown preserves the invariant.
LEMMA ConsSeesShutdownKeeps ==
  ASSUME IInv, ConsSeesShutdown
  PROVE  IInv'
<1> USE PipelineAssumption DEF IInv, ConsSeesShutdown, apiVars, procVars,
        workVars, consVars, outcomeVars
<1>1. TypeOK'
  <2>1. (outcomesOpen \in BOOLEAN)'
    BY DEF TypeOK
  <2> QED
    BY <2>1 DEF TypeOK
<1>2. TaskInv'
  BY DEF TaskInv, EngineStopping, Signalled
<1> QED
  BY <1>1, <1>2 DEF StageInv, RowInv, AnswerInv, WriteAheadAudit,
     StatusTruthful, PublishedOnce, NoOrphans

\* ConsExits preserves the invariant.
LEMMA ConsExitsKeeps ==
  ASSUME IInv, ConsExits
  PROVE  IInv'
<1> USE PipelineAssumption DEF IInv, ConsExits, apiVars, procVars, workVars,
        consVars, outcomeVars
<1>1. TypeOK'
  <2> QED
    BY DEF TypeOK
<1>2. StageInv'
  BY DEF StageInv, Commands
<1>3. TaskInv'
  BY DEF TaskInv, EngineStopping, Signalled
<1>4. NoOrphans'
  BY DEF NoOrphans, TaskInv
<1> QED
  BY <1>1, <1>2, <1>3, <1>4 DEF RowInv, AnswerInv, WriteAheadAudit,
     StatusTruthful, PublishedOnce

\* ConsUpdate preserves the invariant.
LEMMA ConsUpdateKeeps ==
  ASSUME IInv, ConsUpdate
  PROVE  IInv' /\ ResultsStay
<1> USE PipelineAssumption DEF IInv, ConsUpdate, apiVars, procVars, workVars,
        consVars, outcomeVars
<1>t. /\ row \in [Commands -> Statuses]
      /\ stage \in [Commands -> {"new"} \cup Owners \cup Ends]
      /\ answer \in [Commands -> {"none", "queued", "error"}]
  BY DEF TypeOK
<1>0. /\ consCmd # None /\ consCmd[1] \in Commands /\ consCmd[2] \in Terminal
      /\ stage[consCmd[1]] = "consumer" /\ row[consCmd[1]] = "queued"
      /\ consCmd[2] = "published" <=> consCmd[1] \in Items(wire)
  <2>1. consCmd # None
    BY DEF StageInv
  <2>2. consCmd[1] \in Commands /\ consCmd[2] \in Terminal
    BY <2>1 DEF TypeOK, Outcome
  <2> QED
    BY <2>1, <2>2 DEF StageInv, RowInv
<1> DEFINE d == consCmd[1]
<1>a. /\ row' \in [Commands -> Statuses]
      /\ \A e \in Commands \ {d} : row'[e] = row[e]
      /\ row'[d] \in {"queued", consCmd[2]}
      /\ row'[d] = consCmd[2] \/ d \in updateFailed'
      /\ updateFailed \subseteq updateFailed'
      /\ updateFailed' \subseteq updateFailed \cup {d}
      /\ stage' = [stage EXCEPT ![d] = "finished"]
  <2>1. Updated(d, consCmd[2]) = consCmd[2] /\ consCmd[2] \in Statuses
    BY <1>0 DEF Updated, Statuses, Terminal
  <2>2. /\ \/ WriteOk(d, consCmd[2]) /\ updateFailed' = updateFailed
           \/ /\ WriteError(d, consCmd[2])
              /\ updateFailed' = updateFailed \cup {d}
        /\ stage' = [stage EXCEPT ![d] = "finished"]
    BY <2>1 DEF Move
  <2> HIDE DEF d, ConsUpdate
  <2>3. d \in Commands /\ row[d] = "queued"
    BY <1>0 DEF d
  <2> QED
    BY <1>t, <2>1, <2>2, <2>3, WriteRow
<1> HIDE DEF d
<1>b. d = consCmd[1]
  BY DEF d
<1>w. Items(wire) \subseteq Commands
  BY DEF TypeOK, Items
<1>1. TypeOK'
  <2>1. (row \in [Commands -> Statuses])'
    BY <1>t, <1>0, <1>a, <1>b DEF TypeOK, Statuses
  <2>2. (stage \in [Commands -> {"new"} \cup Owners \cup Ends])'
    BY <1>t, <1>0, <1>a, <1>b DEF TypeOK, Owners, Ends
  <2>3. (consCmd \in Outcome \cup {None})'
    BY <1>t, <1>0, <1>a, <1>b DEF TypeOK, Outcome
  <2>4. (updateFailed \subseteq Commands)'
    BY <1>t, <1>0, <1>a, <1>b DEF TypeOK
  <2> QED
    BY <2>1, <2>2, <2>3, <2>4 DEF TypeOK
<1>2. StageInv'
  BY <1>t, <1>0, <1>a, <1>b DEF StageInv, Commands
<1>3. RowInv'
  BY <1>t, <1>0, <1>a, <1>b DEF StageInv, RowInv, Commands
<1>4. AnswerInv'
  BY <1>t, <1>0, <1>a, <1>b DEF StageInv, RowInv, AnswerInv, Commands,
     Terminal
<1>5. TaskInv'
  BY <1>t, <1>0, <1>a, <1>b DEF TaskInv, EngineStopping, Signalled
<1>6. WriteAheadAudit'
  BY <1>t, <1>0, <1>a, <1>b, <1>w DEF StageInv, RowInv, WriteAheadAudit
<1>7. StatusTruthful'
  BY <1>t, <1>0, <1>a, <1>b, <1>w DEF StageInv, RowInv, StatusTruthful,
     Terminal
<1>8. NoOrphans'
  BY <1>t, <1>0, <1>a, <1>b DEF NoOrphans, TaskInv
<1>9. ResultsStay
  BY <1>t, <1>0, <1>a, <1>b DEF ResultsStay, StageInv, RowInv, Terminal
<1> QED
  BY <1>1, <1>2, <1>3, <1>4, <1>5, <1>6, <1>7, <1>8, <1>9 DEF PublishedOnce

\* ShutdownBegins preserves the invariant.
LEMMA ShutdownBeginsKeeps ==
  ASSUME IInv, ShutdownBegins
  PROVE  IInv'
<1> USE PipelineAssumption DEF IInv, ShutdownBegins, apiVars, procVars,
        workVars, consVars, outcomeVars
<1>1. TypeOK'
  <2> QED
    BY DEF TypeOK
<1>2. AnswerInv'
  BY DEF StageInv, RowInv, AnswerInv, Commands, Terminal
<1>3. TaskInv'
  BY DEF TaskInv, EngineStopping, Signalled
<1> QED
  BY <1>1, <1>2, <1>3 DEF StageInv, RowInv, WriteAheadAudit, StatusTruthful,
     PublishedOnce, NoOrphans

\* JoinProcessor preserves the invariant.
LEMMA JoinProcessorKeeps ==
  ASSUME IInv, JoinProcessor
  PROVE  IInv'
<1> USE PipelineAssumption DEF IInv, JoinProcessor, apiVars, procVars,
        workVars, consVars, outcomeVars
<1>1. TypeOK'
  <2> QED
    BY DEF TypeOK
<1>2. AnswerInv'
  BY DEF StageInv, RowInv, AnswerInv, Commands, Terminal
<1>3. TaskInv'
  BY DEF TaskInv, EngineStopping, Signalled
<1> QED
  BY <1>1, <1>2, <1>3 DEF StageInv, RowInv, WriteAheadAudit, StatusTruthful,
     PublishedOnce, NoOrphans

\* AbortProcessor preserves the invariant.
LEMMA AbortProcessorKeeps ==
  ASSUME IInv, AbortProcessor
  PROVE  IInv' /\ ResultsStay
<1> USE PipelineAssumption, NoItems DEF IInv, AbortProcessor, apiVars,
        procVars, workVars, consVars, outcomeVars
<1>t. /\ row \in [Commands -> Statuses]
      /\ stage \in [Commands -> {"new"} \cup Owners \cup Ends]
      /\ answer \in [Commands -> {"none", "queued", "error"}]
  BY DEF TypeOK
<1>0. procCmd # None =>
        /\ procCmd \in Commands /\ procCmd \notin Items(wire)
        /\ stage[procCmd] = "processor" /\ row[procCmd] \in {"none", "queued"}
        /\ ~storage => row[procCmd] = "none"
        /\ proc \in {"record", "fail"}
  <2>1. procCmd # None => procCmd \in Commands /\ proc \in {"record", "fail"}
    BY DEF TypeOK, StageInv
  <2> QED
    BY <2>1 DEF StageInv, RowInv
<1>a. /\ row' \in [Commands -> Statuses]
      /\ \A c \in Commands :
           \/ row'[c] = row[c]
           \/ /\ c = procCmd /\ row'[c] \in {"none", "queued", "failed"}
              /\ c \notin Items(wire) /\ stage[c] = "processor" /\ storage
  <2>1. CASE procCmd = None
    BY <1>t, <2>1
  <2>2. CASE procCmd # None
    <3>1. CutOff(procCmd) \subseteq {"none", "queued", "failed"}
      BY <1>0, <2>2 DEF CutOff, Updated
    <3>2. PICK st \in CutOff(procCmd) : row' = [row EXCEPT ![procCmd] = st]
      BY <2>2
    <3> QED
      BY <1>0, <1>t, <2>2, <3>1, <3>2 DEF Statuses
  <2> QED
    BY <2>1, <2>2
<1>w. Items(wire) \subseteq Commands
  BY DEF TypeOK, Items
<1>1. TypeOK'
  <2>1. (row \in [Commands -> Statuses])'
    BY <1>t, <1>0, <1>a DEF TypeOK, Statuses
  <2>2. (stage \in [Commands -> {"new"} \cup Owners \cup Ends])'
    BY <1>t, <1>0, <1>a DEF TypeOK, Owners, Ends
  <2>3. (queue \in Seq(Commands))'
    BY <1>t, <1>0, <1>a DEF TypeOK
  <2>4. (queueOpen \in BOOLEAN)'
    BY <1>t, <1>0, <1>a DEF TypeOK
  <2>5. (procCmd \in Commands \cup {None})'
    BY <1>t, <1>0, <1>a DEF TypeOK
  <2> QED
    BY <2>1, <2>2, <2>3, <2>4, <2>5 DEF TypeOK
<1>2. StageInv'
  BY <1>t, <1>0, <1>a DEF StageInv, Commands, Firsts
<1>3. RowInv'
  BY <1>t, <1>0, <1>a DEF StageInv, RowInv, Commands, Firsts
<1>4. AnswerInv'
  BY <1>t, <1>0, <1>a DEF StageInv, RowInv, AnswerInv, Commands, Terminal,
     Firsts
<1>5. TaskInv'
  BY <1>t, <1>0, <1>a DEF TaskInv, EngineStopping, Signalled
<1>6. WriteAheadAudit'
  BY <1>t, <1>0, <1>a, <1>w DEF StageInv, RowInv, WriteAheadAudit
<1>7. StatusTruthful'
  BY <1>t, <1>0, <1>a, <1>w DEF StageInv, RowInv, StatusTruthful, Terminal
<1>8. NoOrphans'
  BY <1>t, <1>0, <1>a DEF NoOrphans, TaskInv
<1>9. ResultsStay
  BY <1>t, <1>0, <1>a DEF ResultsStay, StageInv, RowInv, Terminal
<1> QED
  BY <1>1, <1>2, <1>3, <1>4, <1>5, <1>6, <1>7, <1>8, <1>9 DEF PublishedOnce

\* JoinConsumer preserves the invariant.
LEMMA JoinConsumerKeeps ==
  ASSUME IInv, JoinConsumer
  PROVE  IInv'
<1> USE PipelineAssumption DEF IInv, JoinConsumer, apiVars, procVars,
        workVars, consVars, outcomeVars
<1>1. TypeOK'
  <2> QED
    BY DEF TypeOK
<1>2. AnswerInv'
  BY DEF StageInv, RowInv, AnswerInv, Commands, Terminal
<1>3. TaskInv'
  BY DEF TaskInv, EngineStopping, Signalled
<1> QED
  BY <1>1, <1>2, <1>3 DEF StageInv, RowInv, WriteAheadAudit, StatusTruthful,
     PublishedOnce, NoOrphans

\* AbortConsumer preserves the invariant.
LEMMA AbortConsumerKeeps ==
  ASSUME IInv, AbortConsumer
  PROVE  IInv' /\ ResultsStay
<1> USE PipelineAssumption, NoItems DEF IInv, AbortConsumer, apiVars,
        procVars, workVars, consVars, outcomeVars
<1>t. /\ row \in [Commands -> Statuses]
      /\ stage \in [Commands -> {"new"} \cup Owners \cup Ends]
      /\ answer \in [Commands -> {"none", "queued", "error"}]
  BY DEF TypeOK
<1>0. consCmd # None =>
        /\ consCmd[1] \in Commands /\ consCmd[2] \in Terminal
        /\ stage[consCmd[1]] = "consumer" /\ row[consCmd[1]] = "queued"
        /\ consCmd[2] = "published" <=> consCmd[1] \in Items(wire)
  <2>1. consCmd # None => consCmd[1] \in Commands /\ consCmd[2] \in Terminal
    BY DEF TypeOK, Outcome
  <2> QED
    BY <2>1 DEF StageInv, RowInv
<1>b. cons = "update" <=> consCmd # None
  BY DEF StageInv
<1>a. /\ row' \in [Commands -> Statuses]
      /\ \A c \in Commands :
           \/ row'[c] = row[c]
           \/ /\ consCmd # None /\ c = consCmd[1] /\ row'[c] = consCmd[2]
              /\ stage[c] = "consumer" /\ row[c] = "queued"
  <2>1. CASE cons = "select"
    BY <1>t, <2>1
  <2>2. CASE cons # "select"
    <3>1. CutOff(consCmd[1]) = {"queued", consCmd[2]}
      BY <1>0, <1>b, <2>2 DEF CutOff, Updated
    <3>2. PICK st \in CutOff(consCmd[1]) :
            row' = [row EXCEPT ![consCmd[1]] = st]
      BY <2>2
    <3>3. st \in Statuses /\ st \in {"queued", consCmd[2]}
      BY <1>0, <1>b, <2>2, <3>1, <3>2 DEF Statuses, Terminal
    <3> QED
      BY <1>0, <1>b, <1>t, <2>2, <3>2, <3>3
  <2> QED
    BY <2>1, <2>2
<1>w. Items(wire) \subseteq Commands
  BY DEF TypeOK, Items
<1>1. TypeOK'
  <2>1. (row \in [Commands -> Statuses])'
    BY <1>t, <1>0, <1>a, <1>b DEF TypeOK, Statuses
  <2>2. (stage \in [Commands -> {"new"} \cup Owners \cup Ends])'
    BY <1>t, <1>0, <1>a, <1>b DEF TypeOK, Owners, Ends
  <2>3. (outcomes \in Seq(Outcome))'
    BY <1>t, <1>0, <1>a, <1>b DEF TypeOK
  <2>4. (outcomesOpen \in BOOLEAN)'
    BY <1>t, <1>0, <1>a, <1>b DEF TypeOK
  <2>5. (consCmd \in Outcome \cup {None})'
    BY <1>t, <1>0, <1>a, <1>b DEF TypeOK, Outcome
  <2> QED
    BY <2>1, <2>2, <2>3, <2>4, <2>5 DEF TypeOK
<1>2. StageInv'
  BY <1>t, <1>0, <1>a, <1>b DEF StageInv, Commands, Firsts
<1>3. RowInv'
  BY <1>t, <1>0, <1>a, <1>b DEF StageInv, RowInv, Commands, Firsts
<1>4. AnswerInv'
  BY <1>t, <1>0, <1>a, <1>b DEF StageInv, RowInv, AnswerInv, Commands,
     Terminal, Firsts
<1>5. TaskInv'
  BY <1>t, <1>0, <1>a, <1>b DEF TaskInv, EngineStopping, Signalled
<1>6. WriteAheadAudit'
  BY <1>t, <1>0, <1>a, <1>b, <1>w DEF StageInv, RowInv, WriteAheadAudit
<1>7. StatusTruthful'
  BY <1>t, <1>0, <1>a, <1>b, <1>w DEF StageInv, RowInv, StatusTruthful,
     Terminal
<1>8. NoOrphans'
  BY <1>t, <1>0, <1>a, <1>b DEF NoOrphans, TaskInv
<1>9. ResultsStay
  BY <1>t, <1>0, <1>a, <1>b DEF ResultsStay, StageInv, RowInv, Terminal
<1> QED
  BY <1>1, <1>2, <1>3, <1>4, <1>5, <1>6, <1>7, <1>8, <1>9 DEF PublishedOnce

\* JoinEngine preserves the invariant.
LEMMA JoinEngineKeeps ==
  ASSUME IInv, JoinEngine
  PROVE  IInv'
<1> USE PipelineAssumption DEF IInv, JoinEngine, apiVars, procVars, workVars,
        consVars, outcomeVars
<1>1. TypeOK'
  <2> QED
    BY DEF TypeOK
<1>2. AnswerInv'
  BY DEF StageInv, RowInv, AnswerInv, Commands, Terminal
<1>3. TaskInv'
  BY DEF TaskInv, EngineStopping, Signalled
<1> QED
  BY <1>1, <1>2, <1>3 DEF StageInv, RowInv, WriteAheadAudit, StatusTruthful,
     PublishedOnce, NoOrphans

\* Crash preserves the invariant.
LEMMA CrashKeeps ==
  ASSUME IInv, Crash
  PROVE  IInv' /\ ResultsStay
<1> USE PipelineAssumption, NoItems DEF IInv, Crash, Owners, apiVars,
        procVars, workVars, consVars, outcomeVars
<1>t. /\ row \in [Commands -> Statuses]
      /\ stage \in [Commands -> {"new"} \cup Owners \cup Ends]
      /\ answer \in [Commands -> {"none", "queued", "error"}]
  BY DEF TypeOK
<1>0. \A c \in Commands :
        /\ stage[c] = "consumer" =>
             /\ row[c] = "queued" /\ consCmd[2] \in Terminal
             /\ consCmd[2] = "published" <=> c \in Items(wire)
        /\ stage[c] \in {"recording", "rejected", "processor"} =>
             row[c] \in {"none", "queued"} /\ c \notin Items(wire)
        /\ ~storage => row[c] = "none" /\ stage[c] # "recording"
  <2>1. consCmd # None => consCmd[1] \in Commands /\ consCmd[2] \in Terminal
    BY DEF TypeOK, Outcome
  <2> QED
    BY <2>1 DEF StageInv, RowInv
<1>a. /\ row' \in [Commands -> Statuses]
      /\ \A c \in Commands : row'[c] \in CutOff(c)
  OBVIOUS
<1>b. \A c \in Commands :
        \/ row'[c] = row[c]
        \/ /\ stage[c] \in {"recording", "rejected", "processor"}
           /\ row'[c] \in {"none", "queued", "failed"} /\ storage
        \/ stage[c] = "consumer" /\ row'[c] = consCmd[2]
  BY <1>0, <1>a DEF CutOff, Updated
<1>w. Items(wire) \subseteq Commands
  BY DEF TypeOK, Items
<1>1. TypeOK'
  <2>1. (row \in [Commands -> Statuses])'
    BY <1>t, <1>0, <1>a, <1>b DEF TypeOK, Statuses
  <2>2. (stage \in [Commands -> {"new"} \cup Owners \cup Ends])'
    BY <1>t, <1>0, <1>a, <1>b DEF TypeOK, Owners, Ends
  <2>3. (queue \in Seq(Commands))'
    BY <1>t, <1>0, <1>a, <1>b DEF TypeOK
  <2>4. (queueOpen \in BOOLEAN)'
    BY <1>t, <1>0, <1>a, <1>b DEF TypeOK
  <2>5. (bus \in Seq(Commands))'
    BY <1>t, <1>0, <1>a, <1>b DEF TypeOK
  <2>6. (outcomes \in Seq(Outcome))'
    BY <1>t, <1>0, <1>a, <1>b DEF TypeOK
  <2>7. (outcomesOpen \in BOOLEAN)'
    BY <1>t, <1>0, <1>a, <1>b DEF TypeOK
  <2>8. (procCmd \in Commands \cup {None})'
    BY <1>t, <1>0, <1>a, <1>b DEF TypeOK
  <2>9. (workCmd \in Commands \cup {None})'
    BY <1>t, <1>0, <1>a, <1>b DEF TypeOK
  <2>10. (consCmd \in Outcome \cup {None})'
    BY <1>t, <1>0, <1>a, <1>b DEF TypeOK, Outcome
  <2> QED
    BY <2>1, <2>2, <2>3, <2>4, <2>5, <2>6, <2>7, <2>8, <2>9, <2>10 DEF TypeOK
<1>2. StageInv'
  BY <1>t, <1>0, <1>a, <1>b DEF StageInv, Commands, Firsts
<1>3. RowInv'
  BY <1>t, <1>0, <1>a, <1>b DEF StageInv, RowInv, Commands, Firsts
<1>4. AnswerInv'
  BY <1>t, <1>0, <1>a, <1>b DEF StageInv, RowInv, AnswerInv, Commands,
     Terminal, Firsts
<1>5. TaskInv'
  BY <1>t, <1>0, <1>a, <1>b DEF TaskInv, EngineStopping, Signalled
<1>6. WriteAheadAudit'
  BY <1>t, <1>0, <1>a, <1>b, <1>w DEF StageInv, RowInv, WriteAheadAudit
<1>7. StatusTruthful'
  BY <1>t, <1>0, <1>a, <1>b, <1>w DEF StageInv, RowInv, StatusTruthful,
     Terminal
<1>8. NoOrphans'
  BY <1>t, <1>0, <1>a, <1>b DEF NoOrphans, TaskInv
<1>9. ResultsStay
  BY <1>t, <1>0, <1>a, <1>b DEF ResultsStay, StageInv, RowInv, Terminal
<1> QED
  BY <1>1, <1>2, <1>3, <1>4, <1>5, <1>6, <1>7, <1>8, <1>9 DEF PublishedOnce

-----------------------------------------------------------------------------
\* Every step, a stuttering one included, preserves the invariant and leaves
\* the results in the table alone.
LEMMA NextIInv == IInv /\ [Next]_vars => IInv' /\ ResultsStay
<1> SUFFICES ASSUME IInv, [Next]_vars PROVE IInv' /\ ResultsStay
  OBVIOUS
<1>1. ASSUME NEW c \in ApiCommands, Caller(c) \/ Disconnect(c)
      PROVE  IInv' /\ ResultsStay
  <2>1. CASE ExecuteCommand(c)
    BY <2>1, ExecuteCommandKeeps DEF ExecuteCommand, ResultsStay
  <2>2. CASE EnqueueRequest(c)
    BY <2>2, EnqueueRequestKeeps DEF EnqueueRequest, ResultsStay
  <2> QED
    BY <1>1, <2>1, <2>2, RecordExecutionKeeps, MarkRejectedKeeps,
       DisconnectKeeps
    DEF Caller
<1>2. ASSUME NEW c \in RuleCommands, DispatchRule(c)
      PROVE  IInv' /\ ResultsStay
  BY <1>2, DispatchRuleKeeps DEF DispatchRule, ResultsStay
<1>3. CASE Processor
  <2>1. CASE ProcReceive
    BY <2>1, ProcReceiveKeeps DEF ProcReceive, ResultsStay
  <2>2. CASE ProcSeesShutdown
    BY <2>2, ProcSeesShutdownKeeps DEF ProcSeesShutdown, ResultsStay
  <2>3. CASE ProcExits
    BY <2>3, ProcExitsKeeps DEF ProcExits, ResultsStay
  <2>4. CASE ProcRender
    BY <2>4, ProcRenderKeeps DEF ProcRender, ResultsStay
  <2>5. CASE ProcEnqueue
    BY <2>5, ProcEnqueueKeeps DEF ProcEnqueue, ResultsStay
  <2> QED
    BY <1>3, <2>1, <2>2, <2>3, <2>4, <2>5, ProcRecordKeeps, ProcFailKeeps
    DEF Processor
<1>4. CASE Worker
  <2>1. CASE WorkReceive
    BY <2>1, WorkReceiveKeeps DEF WorkReceive, ResultsStay
  <2>2. CASE WorkPublish
    BY <2>2, WorkPublishKeeps DEF WorkPublish, ResultsStay
  <2>3. CASE WorkExits
    BY <2>3, WorkExitsKeeps DEF WorkExits, ResultsStay
  <2> QED
    BY <1>4, <2>1, <2>2, <2>3 DEF Worker
<1>5. CASE Consumer
  <2>1. CASE ConsReceive
    BY <2>1, ConsReceiveKeeps DEF ConsReceive, ResultsStay
  <2>2. CASE ConsSeesShutdown
    BY <2>2, ConsSeesShutdownKeeps DEF ConsSeesShutdown, ResultsStay
  <2>3. CASE ConsExits
    BY <2>3, ConsExitsKeeps DEF ConsExits, ResultsStay
  <2> QED
    BY <1>5, <2>1, <2>2, <2>3, ConsUpdateKeeps DEF Consumer
<1>6. CASE Driver
  <2>1. CASE ShutdownBegins
    BY <2>1, ShutdownBeginsKeeps DEF ShutdownBegins, ResultsStay
  <2>2. CASE JoinProcessor
    BY <2>2, JoinProcessorKeeps DEF JoinProcessor, ResultsStay
  <2>3. CASE JoinConsumer
    BY <2>3, JoinConsumerKeeps DEF JoinConsumer, ResultsStay
  <2>4. CASE JoinEngine
    BY <2>4, JoinEngineKeeps DEF JoinEngine, ResultsStay
  <2> QED
    BY <1>6, <2>1, <2>2, <2>3, <2>4, AbortProcessorKeeps, AbortConsumerKeeps
    DEF Driver
<1>7. CASE Crash
  BY <1>7, CrashKeeps
<1>8. CASE UNCHANGED vars
  <2> USE <1>8 DEF vars
  <2>1. (TypeOK /\ StageInv /\ TaskInv)'
    BY DEF IInv, TypeOK, StageInv, TaskInv, EngineStopping
  <2>2. (RowInv /\ AnswerInv)' /\ ResultsStay
    BY DEF IInv, RowInv, AnswerInv, ResultsStay
  <2>3. (WriteAheadAudit /\ StatusTruthful /\ PublishedOnce /\ NoOrphans)'
    BY DEF IInv, WriteAheadAudit, StatusTruthful, PublishedOnce, NoOrphans
  <2> QED
    BY <2>1, <2>2, <2>3 DEF IInv
<1> QED
  BY <1>1, <1>2, <1>3, <1>4, <1>5, <1>6, <1>7, <1>8 DEF Next

\* The inductive invariant holds in every behaviour of the pipeline.
THEOREM Invariance == Spec => []IInv
<1>1. IInv /\ [Next]_vars => IInv'
  BY NextIInv
<1> QED
  BY <1>1, InitIInv, PTL DEF Spec

\* TypeOK holds for every set of commands and every capacity.
THEOREM TypeCorrect == Spec => []TypeOK
<1>1. IInv => TypeOK
  BY DEF IInv
<1> QED
  BY <1>1, Invariance, PTL

\* No command reaches the MQTT client without its row, whichever tasks are
\* aborted and wherever the daemon dies.
THEOREM NoPublishWithoutAudit == Spec => []WriteAheadAudit
<1>1. IInv => WriteAheadAudit
  BY DEF IInv
<1> QED
  BY <1>1, Invariance, PTL

\* A row never claims a publish that did not happen nor a failure of one that
\* did, although five different places write rows without looking at them.
THEOREM RowsTellTheTruth == Spec => []StatusTruthful
<1>1. IInv => StatusTruthful
  BY DEF IInv
<1> QED
  BY <1>1, Invariance, PTL

\* The pipeline never hands a command to the MQTT client twice.
THEOREM AtMostOnePublish == Spec => []PublishedOnce
<1>1. IInv => PublishedOnce
  BY DEF IInv
<1> QED
  BY <1>1, Invariance, PTL

\* A task that has ended leaves no command in its channel.
THEOREM NothingLeftBehind == Spec => []NoOrphans
<1>1. IInv => NoOrphans
  BY DEF IInv
<1> QED
  BY <1>1, Invariance, PTL

\* While the runtime is up no accepted command vanishes: it is owned, has its
\* result, or its loss was counted or logged.
THEOREM LossIsNeverSilent == Spec => []NoSilentLoss
<1>1. IInv => NoSilentLoss
  <2> SUFFICES ASSUME IInv, driver = "up", NEW c \in Commands,
                      answer[c] = "queued",
                      ~(stage[c] = "unreported"), ~InHands(c)
               PROVE  \/ row[c] \in Terminal
                      \/ c \in updateFailed
                      \/ c \in RuleCommands /\ row[c] = "none"
                           /\ c \notin Items(wire)
    BY DEF NoSilentLoss
  <2>1. stage[c] \notin {"queue", "processor", "bus", "worker", "outcome",
                         "consumer"}
    BY DEF IInv, StageInv, InHands, Firsts
  <2>2. stage[c] = "finished"
    BY <2>1 DEF IInv, AnswerInv
  <2> QED
    BY <2>2 DEF IInv, AnswerInv
<1> QED
  BY <1>1, Invariance, PTL

\* A result once in the table never changes.
THEOREM ResultsAreFinal == Spec => ResultFinal
<1>1. IInv /\ [Next]_vars => [ResultsStay]_vars
  BY NextIInv
<1> QED
  BY <1>1, Invariance, PTL DEF Spec, ResultFinal, ResultsStay
-----------------------------------------------------------------------------
(* The order of the commands.  From the wire back to the command queue     *)
(* they stand in the order in which the queue accepted them.               *)

\* a was accepted before b.
Before(acc, a, b) ==
  \E m, n \in DOMAIN acc : m < n /\ acc[m] = a /\ acc[n] = b

Precede(acc, A, B) == \A a \in A, b \in B : Before(acc, a, b)
InOrder(acc, s) == \A i, j \in DOMAIN s : i < j => Before(acc, s[i], s[j])

\* wire, worker, bus, processor and queue hold w, k, b, p and q.
Lined(acc, w, k, b, p, q) ==
  /\ Items(w) \cup k \cup Items(b) \cup p \cup Items(q) \subseteq Items(acc)
  /\ InOrder(acc, w) /\ InOrder(acc, b) /\ InOrder(acc, q)
  /\ Precede(acc, Items(w), k \cup Items(b) \cup p \cup Items(q))
  /\ Precede(acc, k, Items(b) \cup p \cup Items(q))
  /\ Precede(acc, Items(b), p \cup Items(q))
  /\ Precede(acc, p, Items(q))

OrderInv ==
  Lined(accepted, wire, {workCmd} \ {None}, bus, {procCmd} \ {None}, queue)

\* What was accepted stays in order, and comes before what is accepted now.
LEMMA BeforeAppend ==
  ASSUME NEW S, NEW acc \in Seq(S), NEW c \in S
  PROVE  /\ \A a, b : Before(acc, a, b) => Before(Append(acc, c), a, b)
         /\ \A a \in Items(acc) : Before(Append(acc, c), a, c)
<1>1. /\ Len(acc) \in Nat /\ DOMAIN acc = 1..Len(acc)
      /\ DOMAIN Append(acc, c) = 1..Len(acc) + 1
      /\ \A i \in 1..Len(acc) : Append(acc, c)[i] = acc[i]
      /\ Append(acc, c)[Len(acc) + 1] = c
  OBVIOUS
<1>2. ASSUME NEW a, NEW b, Before(acc, a, b)
      PROVE  Before(Append(acc, c), a, b)
  BY <1>1, <1>2 DEF Before
<1>3. ASSUME NEW a \in Items(acc)
      PROVE  Before(Append(acc, c), a, c)
  <2>1. PICK i \in 1..Len(acc) : acc[i] = a
    BY <1>1 DEF Items
  <2>2. i \in DOMAIN Append(acc, c) /\ Len(acc) + 1 \in DOMAIN Append(acc, c)
        /\ i < Len(acc) + 1
    BY <1>1
  <2> QED
    BY <1>1, <2>1, <2>2 DEF Before
<1> QED
  BY <1>2, <1>3

\* A sequence in order stays in order with a later command at its end.
LEMMA InOrderAppend ==
  ASSUME NEW S, NEW acc, NEW s \in Seq(S), NEW c \in S, InOrder(acc, s),
         Precede(acc, Items(s), {c})
  PROVE  InOrder(acc, Append(s, c))
<1>1. /\ Len(s) \in Nat /\ DOMAIN s = 1..Len(s)
      /\ DOMAIN Append(s, c) = 1..Len(s) + 1
      /\ \A i \in 1..Len(s) : Append(s, c)[i] = s[i]
      /\ Append(s, c)[Len(s) + 1] = c
  OBVIOUS
<1> SUFFICES ASSUME NEW i \in 1..Len(s) + 1, NEW j \in 1..Len(s) + 1, i < j
             PROVE  Before(acc, Append(s, c)[i], Append(s, c)[j])
  BY <1>1 DEF InOrder
<1>2. i \in 1..Len(s) /\ (j \in 1..Len(s) \/ j = Len(s) + 1)
  BY <1>1
<1>3. s[i] \in Items(s)
  BY <1>1, <1>2 DEF Items
<1> QED
  BY <1>1, <1>2, <1>3 DEF InOrder, Precede

\* Its head comes before its tail, which is in order.
LEMMA InOrderTail ==
  ASSUME NEW S, NEW acc, NEW s \in Seq(S), s # <<>>, InOrder(acc, s)
  PROVE  InOrder(acc, Tail(s)) /\ Precede(acc, {Head(s)}, Items(Tail(s)))
<1>1. /\ Len(s) \in Nat /\ Len(s) > 0 /\ Head(s) = s[1] /\ DOMAIN s = 1..Len(s)
      /\ DOMAIN Tail(s) = 1..Len(s) - 1
  OBVIOUS
<1>2. \A i \in 1..Len(s) - 1 : i + 1 \in 1..Len(s) /\ Tail(s)[i] = s[i + 1]
  BY <1>1
<1>3. InOrder(acc, Tail(s))
  <2> SUFFICES ASSUME NEW i \in 1..Len(s) - 1, NEW j \in 1..Len(s) - 1, i < j
               PROVE  Before(acc, Tail(s)[i], Tail(s)[j])
    BY <1>1 DEF InOrder
  <2>1. i + 1 < j + 1
    BY <1>1
  <2> QED
    BY <1>1, <1>2, <2>1 DEF InOrder
<1>4. ASSUME NEW b \in Items(Tail(s))
      PROVE  Before(acc, Head(s), b)
  <2>1. PICK i \in 1..Len(s) - 1 : b = Tail(s)[i]
    BY <1>1 DEF Items
  <2>2. 1 \in 1..Len(s) /\ i + 1 \in 1..Len(s) /\ 1 < i + 1 /\ b = s[i + 1]
    BY <1>1, <1>2, <2>1
  <2> QED
    BY <1>1, <2>2 DEF InOrder
<1> QED
  BY <1>3, <1>4 DEF Precede

\* The queue accepts a command.
LEMMA LinedAccept ==
  ASSUME NEW acc \in Seq(Commands), NEW w, NEW k, NEW b, NEW p,
         NEW q \in Seq(Commands), NEW c \in Commands, Lined(acc, w, k, b, p, q)
  PROVE  Lined(Append(acc, c), w, k, b, p, Append(q, c))
<1>1. /\ Items(Append(acc, c)) = Items(acc) \cup {c}
      /\ Items(Append(q, c)) = Items(q) \cup {c}
  BY AppendItems
<1>2. /\ \A x, y : Before(acc, x, y) => Before(Append(acc, c), x, y)
      /\ \A x \in Items(acc) : Before(Append(acc, c), x, c)
  BY BeforeAppend
<1>3. /\ InOrder(Append(acc, c), w) /\ InOrder(Append(acc, c), b)
      /\ InOrder(Append(acc, c), q)
  BY <1>2 DEF Lined, InOrder
<1>4. Precede(Append(acc, c), Items(q), {c})
  BY <1>2 DEF Lined, Precede
<1>5. InOrder(Append(acc, c), Append(q, c))
  BY <1>3, <1>4, InOrderAppend
<1>6. /\ Precede(Append(acc, c), Items(w), k \cup Items(b) \cup p \cup Items(q) \cup {c})
      /\ Precede(Append(acc, c), k, Items(b) \cup p \cup Items(q) \cup {c})
      /\ Precede(Append(acc, c), Items(b), p \cup Items(q) \cup {c})
      /\ Precede(Append(acc, c), p, Items(q) \cup {c})
  BY <1>2 DEF Lined, Precede
<1>7. Items(w) \cup k \cup Items(b) \cup p \cup Items(q) \cup {c} \subseteq Items(acc) \cup {c}
  BY DEF Lined
<1>8. /\ k \cup Items(b) \cup p \cup (Items(q) \cup {c}) =
           k \cup Items(b) \cup p \cup Items(q) \cup {c}
      /\ Items(b) \cup p \cup (Items(q) \cup {c}) = Items(b) \cup p \cup Items(q) \cup {c}
      /\ p \cup (Items(q) \cup {c}) = p \cup Items(q) \cup {c}
  OBVIOUS
<1>9. Items(w) \cup k \cup Items(b) \cup p \cup (Items(q) \cup {c}) \subseteq Items(acc) \cup {c}
  BY <1>7
<1> QED
  BY <1>1, <1>3, <1>5, <1>6, <1>8, <1>9 DEF Lined

\* The processor takes the first command of the queue.
LEMMA LinedReceive ==
  ASSUME NEW acc, NEW w, NEW k, NEW b, NEW q \in Seq(Commands), q # <<>>,
         Lined(acc, w, k, b, {}, q)
  PROVE  Lined(acc, w, k, b, {Head(q)}, Tail(q))
<1>1. Items(q) = {Head(q)} \cup Items(Tail(q))
  BY TailItems
<1>2. InOrder(acc, Tail(q)) /\ Precede(acc, {Head(q)}, Items(Tail(q)))
  BY InOrderTail DEF Lined
<1> QED
  BY <1>1, <1>2 DEF Lined, Precede

\* The command goes from the processor to the end of the bus.
LEMMA LinedForward ==
  ASSUME NEW acc, NEW w, NEW k, NEW b \in Seq(Commands), NEW c \in Commands, NEW q,
         Lined(acc, w, k, b, {c}, q)
  PROVE  Lined(acc, w, k, Append(b, c), {}, q)
<1>1. Items(Append(b, c)) = Items(b) \cup {c}
  BY AppendItems
<1>2. Precede(acc, Items(b), {c})
  BY DEF Lined, Precede
<1>3. InOrder(acc, Append(b, c))
  BY <1>2, InOrderAppend DEF Lined
<1> QED
  BY <1>1, <1>3 DEF Lined, Precede

\* The worker takes the first command of the bus.
LEMMA LinedTake ==
  ASSUME NEW acc, NEW w, NEW b \in Seq(Commands), b # <<>>, NEW p, NEW q,
         Lined(acc, w, {}, b, p, q)
  PROVE  Lined(acc, w, {Head(b)}, Tail(b), p, q)
<1>1. Items(b) = {Head(b)} \cup Items(Tail(b))
  BY TailItems
<1>2. InOrder(acc, Tail(b)) /\ Precede(acc, {Head(b)}, Items(Tail(b)))
  BY InOrderTail DEF Lined
<1> QED
  BY <1>1, <1>2 DEF Lined, Precede

\* The command goes from the worker to the wire.
LEMMA LinedPublish ==
  ASSUME NEW acc, NEW w \in Seq(Commands), NEW c \in Commands, NEW b, NEW p, NEW q,
         Lined(acc, w, {c}, b, p, q)
  PROVE  Lined(acc, Append(w, c), {}, b, p, q)
<1>1. Items(Append(w, c)) = Items(w) \cup {c}
  BY AppendItems
<1>2. Precede(acc, Items(w), {c})
  BY DEF Lined, Precede
<1>3. InOrder(acc, Append(w, c))
  BY <1>2, InOrderAppend DEF Lined
<1> QED
  BY <1>1, <1>3 DEF Lined, Precede

\* What is lost, failed or dropped leaves the others in order.
LEMMA LinedDrops ==
  ASSUME NEW acc, NEW w, NEW k, NEW b, NEW p, NEW q, Lined(acc, w, k, b, p, q),
         NEW kk \in SUBSET k, NEW bb \in {b, <<>>}, NEW pp \in SUBSET p,
         NEW qq \in {q, <<>>}
  PROVE  Lined(acc, w, kk, bb, pp, qq)
<1>1. Items(bb) \subseteq Items(b) /\ Items(qq) \subseteq Items(q)
  BY NoItems
<1>2. InOrder(acc, <<>>)
  BY DEF InOrder
<1>3. InOrder(acc, bb) /\ InOrder(acc, qq)
  BY <1>2 DEF Lined
<1> QED
  BY <1>1, <1>3 DEF Lined, Precede

\* The commands are lined up from the start ...
LEMMA InitOrder == Init => OrderInv
<1> SUFFICES ASSUME Init PROVE OrderInv
  OBVIOUS
<1>1. /\ accepted = <<>> /\ wire = <<>> /\ bus = <<>> /\ queue = <<>>
      /\ workCmd = None /\ procCmd = None
  BY DEF Init
<1>2. Lined(<<>>, <<>>, {}, <<>>, {}, <<>>)
  BY NoItems DEF Lined, InOrder, Precede
<1>3. {workCmd} \ {None} = {} /\ {procCmd} \ {None} = {}
  BY <1>1
<1> QED
  BY <1>1, <1>2, <1>3 DEF OrderInv

\* ... and no step changes that.
LEMMA NextOrder ==
  ASSUME IInv, OrderInv, [Next]_vars
  PROVE  OrderInv'
<1> DEFINE K == {workCmd} \ {None}
           P == {procCmd} \ {None}
<1>1. /\ accepted \in Seq(Commands) /\ wire \in Seq(Commands)
      /\ bus \in Seq(Commands) /\ queue \in Seq(Commands)
      /\ workCmd \in Commands \cup {None} /\ procCmd \in Commands \cup {None}
  BY DEF IInv, TypeOK
<1>2. Lined(accepted, wire, K, bus, P, queue)
  BY DEF OrderInv
<1>3. ASSUME Lined(accepted', wire', K', bus', P', queue')
      PROVE  OrderInv'
  BY <1>3 DEF OrderInv
<1>4. ASSUME UNCHANGED <<accepted, wire>>, K' \in SUBSET K, bus' \in {bus, <<>>},
             P' \in SUBSET P, queue' \in {queue, <<>>}
      PROVE  OrderInv'
  <2> HIDE DEF K, P
  <2>1. Lined(accepted, wire, K', bus', P', queue')
    BY <1>2, <1>4, LinedDrops
  <2> QED
    BY <1>3, <1>4, <2>1
<1>5. ASSUME UNCHANGED <<accepted, wire, workCmd, bus, procCmd, queue>>
      PROVE  OrderInv'
  BY <1>4, <1>5
<1>6. ASSUME NEW c \in Commands, TryEnqueue(c),
             UNCHANGED <<wire, workCmd, bus, procCmd>>
      PROVE  OrderInv'
  <2>1. Lined(Append(accepted, c), wire, K, bus, P, Append(queue, c))
    BY <1>1, <1>2, LinedAccept
  <2>2. accepted' = Append(accepted, c) /\ queue' = Append(queue, c)
    BY <1>6 DEF TryEnqueue
  <2>3. K' = K /\ P' = P /\ wire' = wire /\ bus' = bus
    BY <1>6
  <2> HIDE DEF K, P
  <2> QED
    BY <1>3, <2>1, <2>2, <2>3
<1>7. CASE ProcReceive
  <2>1. /\ queue # <<>> /\ queue' = Tail(queue) /\ procCmd' = Head(queue)
        /\ procCmd = None
        /\ UNCHANGED <<accepted, wire, workCmd, bus>>
    BY <1>7 DEF ProcReceive, apiVars, workVars, IInv, StageInv
  <2>2. P = {} /\ K' = K
    BY <2>1
  <2>3. P' = {Head(queue)}
    BY <1>1, <2>1, TailItems, PipelineAssumption DEF Commands
  <2>4. Lined(accepted, wire, K, bus, {Head(queue)}, Tail(queue))
    BY <1>1, <1>2, <2>1, <2>2, LinedReceive
  <2> HIDE DEF K, P
  <2> QED
    BY <1>3, <2>1, <2>2, <2>3, <2>4
<1>8. CASE ProcEnqueue
  <2>1. UNCHANGED <<accepted, wire, workCmd, queue>>
    BY <1>8 DEF ProcEnqueue, apiVars, workVars
  <2>2. CASE bus' = Append(bus, procCmd) /\ procCmd' = None
    <3>1. procCmd \in Commands /\ procCmd # None
      BY <1>1, <1>8, PipelineAssumption DEF ProcEnqueue, IInv, StageInv, Commands
    <3>2. P = {procCmd} /\ P' = {} /\ K' = K
      BY <2>1, <2>2, <3>1
    <3>3. Lined(accepted, wire, K, Append(bus, procCmd), {}, queue)
      BY <1>1, <1>2, <3>1, <3>2, LinedForward
    <3> HIDE DEF K, P
    <3> QED
      BY <1>3, <2>1, <2>2, <3>2, <3>3
  <2>3. CASE bus' = bus /\ procCmd' = procCmd
    BY <1>5, <2>1, <2>3
  <2> QED
    BY <1>8, <2>2, <2>3 DEF ProcEnqueue
<1>9. CASE WorkReceive
  <2>1. /\ bus # <<>> /\ bus' = Tail(bus) /\ workCmd' = Head(bus)
        /\ workCmd = None
        /\ UNCHANGED <<accepted, wire, procCmd, queue>>
    BY <1>9 DEF WorkReceive, apiVars, procVars, IInv, StageInv
  <2>2. K = {} /\ P' = P
    BY <2>1
  <2>3. K' = {Head(bus)}
    BY <1>1, <2>1, TailItems, PipelineAssumption DEF Commands
  <2>4. Lined(accepted, wire, {Head(bus)}, Tail(bus), P, queue)
    BY <1>1, <1>2, <2>1, <2>2, LinedTake
  <2> HIDE DEF K, P
  <2> QED
    BY <1>3, <2>1, <2>2, <2>3, <2>4
<1>10. CASE WorkPublish
  <2>1. /\ workCmd' = None /\ wire' \in {wire, Append(wire, workCmd)}
        /\ UNCHANGED <<accepted, bus, procCmd, queue>>
    BY <1>10 DEF WorkPublish, apiVars, procVars
  <2>2. K' = {} /\ P' = P
    BY <2>1
  <2>3. CASE wire' = wire
    BY <1>4, <2>1, <2>2, <2>3
  <2>4. CASE wire' = Append(wire, workCmd)
    <3>1. workCmd \in Commands /\ K = {workCmd}
      BY <1>1, <1>10, PipelineAssumption DEF WorkPublish, IInv, StageInv, Commands
    <3>2. Lined(accepted, Append(wire, workCmd), {}, bus, P, queue)
      BY <1>1, <1>2, <3>1, LinedPublish
    <3> HIDE DEF K, P
    <3> QED
      BY <1>3, <2>1, <2>2, <2>4, <3>2
  <2> QED
    BY <2>1, <2>3, <2>4
<1>11. CASE \E c \in ApiCommands : Caller(c) \/ Disconnect(c)
  <2>1. PICK c \in ApiCommands : Caller(c) \/ Disconnect(c)
    BY <1>11
  <2>2. CASE EnqueueRequest(c)
    BY <1>5, <1>6, <2>2 DEF EnqueueRequest, procVars, workVars, apiVars, Commands
  <2>3. CASE ExecuteCommand(c) \/ RecordExecution(c) \/ MarkRejected(c) \/ Disconnect(c)
    BY <1>5, <2>3 DEF ExecuteCommand, RecordExecution, MarkRejected, Disconnect,
                      procVars, workVars, apiVars
  <2> QED
    BY <2>1, <2>2, <2>3 DEF Caller
<1>12. CASE \E c \in RuleCommands : DispatchRule(c)
  BY <1>5, <1>6, <1>12 DEF DispatchRule, procVars, workVars, Commands
<1>13. CASE ProcSeesShutdown \/ ProcExits \/ ProcRender \/ ProcRecord
  BY <1>5, <1>13 DEF ProcSeesShutdown, ProcExits, ProcRender, ProcRecord,
                     procVars, workVars, apiVars
<1>14. CASE ProcFail \/ WorkExits \/ AbortProcessor \/ Crash
  <2>1. /\ UNCHANGED <<accepted, wire>> /\ bus' \in {bus, <<>>} /\ queue' \in {queue, <<>>}
        /\ workCmd' \in {workCmd, None} /\ procCmd' \in {procCmd, None}
    BY <1>14 DEF ProcFail, WorkExits, AbortProcessor, Crash, procVars, workVars, apiVars
  <2>2. K' \in SUBSET K /\ P' \in SUBSET P
    BY <2>1
  <2> QED
    BY <1>4, <2>1, <2>2
<1>15. CASE Consumer
  BY <1>5, <1>15 DEF Consumer, ConsReceive, ConsSeesShutdown, ConsExits, ConsUpdate,
                     procVars, workVars, apiVars
<1>16. CASE ShutdownBegins \/ JoinProcessor \/ JoinConsumer \/ AbortConsumer \/ JoinEngine
  BY <1>5, <1>16 DEF ShutdownBegins, JoinProcessor, JoinConsumer, AbortConsumer,
                     JoinEngine, procVars, workVars, apiVars
<1>17. CASE UNCHANGED vars
  BY <1>5, <1>17 DEF vars
<1> QED
  BY <1>7, <1>8, <1>9, <1>10, <1>11, <1>12, <1>13, <1>14, <1>15, <1>16, <1>17
  DEF Next, Processor, Worker, Driver

\* Commands reach the MQTT client in the order in which the queue accepted
\* them, whatever was lost or failed in between.
THEOREM OrderIsKept == Spec => []OrderPreserved
<1>1. IInv /\ OrderInv /\ [Next]_vars => OrderInv'
  BY NextOrder
<1>2. OrderInv => OrderPreserved
  BY DEF OrderInv, Lined, InOrder, Before, OrderPreserved
<1> QED
  BY <1>1, <1>2, InitOrder, Invariance, PTL DEF Spec
==============================================================================

--------------------------- MODULE OpenCodeExport ---------------------------
(***************************************************************************)
(* From an OpenCode session to the log of a bridge session: what           *)
(* parse_opencode_export and normalize_raw_event make of an export         *)
(* (crates/cb-adapters/src/documented.rs, cb-context/src/normalizer.rs),   *)
(* while OpenCode still writes to the session and several cb processes     *)
(* import and refresh it.                                                  *)
(*                                                                         *)
(* A message is its role, whether it and its tool part carry ids, how much *)
(* of its text and of its tool call is written, and whether OpenCode is    *)
(* still at it.  Reasoning, which the parser leaves out, is no text.       *)
(***************************************************************************)
EXTENDS Integers, Sequences, SequencesExt

CONSTANTS
  Processes,
  Labels,      \* whether messages, and whether their parts, carry ids
  Words,       \* steps in which the text of a message grows
  MaxMessages, MaxExports  \* bounds of the instance

ASSUME LabelsEach == Labels \subseteq BOOLEAN \X BOOLEAN
ASSUME BoundsAreNumbers == {Words, MaxMessages, MaxExports} \subseteq Nat

VARIABLES
  transcript,  \* the messages of the external session
  log,         \* the imported events of the bridge session
  marker,      \* the form the link's parser_version stands for, "none" without a link
  job,         \* the export each process has read and not yet stored
  exports      \* exports so far

vars == <<transcript, log, marker, job, exports>>

Roles == {"user", "assistant", "other"}
Message == [role : Roles, id : BOOLEAN, partId : BOOLEAN, text : 0 .. Words,
            tool : {"none", "called", "finished", "answered"},
            open : BOOLEAN, queued : BOOLEAN]

-----------------------------------------------------------------------------
(* Import keys.                                                            *)

\* A message is known by its id or its position.
MessageName(n) == <<IF transcript[n].id THEN "id" ELSE "ordinal", n>>

\* A tool part is known by its id, or by its position in a message that is
\* known by its id or not at all.
PartName(n) == IF transcript[n].partId THEN <<"part", n>>
               ELSE IF transcript[n].id THEN <<"id", n>>
               ELSE <<"message", 0>>

\* canonical_import_key: the parser version is part of the key.
Key(tag, name, full) == [tag |-> tag, name |-> name, full |-> full]

\* An event remembers the message it tells of, and its text as far as the
\* form of the export shows it.
Event(tag, name, full, n) ==
  [key |-> Key(tag, name, full), of |-> n,
   content |-> IF full /\ tag = "message" THEN transcript[n].text ELSE 0]

\* Fault: a result is keyed and told like a call.
ToolEventsAlike(n, full) ==
  LET part == Event("call", PartName(n), full, n)
  IN  CASE transcript[n].tool = "none"     -> <<>>
        [] transcript[n].tool = "called"   -> <<part>>
        [] transcript[n].tool = "finished" -> <<[part EXCEPT !.key.tag = "result"], part>>
        [] transcript[n].tool = "answered" -> <<[part EXCEPT !.key.tag = "result"]>>

\* tool_events: the call of a part with an input, then the result of one with
\* an output.
ToolEvents(n, full) ==
  LET call == Event("call", PartName(n), full, n)
      result == Event("result", PartName(n), full, n)
  IN  CASE transcript[n].tool = "none"     -> <<>>
        [] transcript[n].tool = "called"   -> <<call>>
        [] transcript[n].tool = "finished" -> <<call, result>>
        [] transcript[n].tool = "answered" -> <<result>>

\* A message without text, or of another role, is told by its tools alone.
MessageEvents(n, full) ==
  IF transcript[n].role = "other" \/ transcript[n].text = 0 THEN <<>>
  ELSE <<Event("message", MessageName(n), full, n)>>

\* Fault: the tools of all messages are told after all texts.
ExportToolsLast(full) ==
  FlattenSeq([n \in DOMAIN transcript |-> MessageEvents(n, full)])
  \o FlattenSeq([n \in DOMAIN transcript |-> ToolEvents(n, full)])

Export(full) ==
  FlattenSeq([n \in DOMAIN transcript |-> MessageEvents(n, full) \o ToolEvents(n, full)])

\* Fault: an event is known by its position in the log.
AppendedByPosition(old, events) ==
  FoldLeft(LAMBDA l, e : IF \E i \in DOMAIN l : l[i].of = e.of /\ l[i].key.full = e.key.full
                         THEN l ELSE Append(l, e), old, events)

\* Fault: only the keys stored before the batch are looked at.
AppendedUnchecked(old, events) ==
  old \o SelectSeq(events, LAMBDA e : ~ \E i \in DOMAIN old : old[i].key = e.key)

HasKey(events, key) == \E i \in DOMAIN events : events[i].key = key

\* append_events drops an event whose key is stored.
Appended(old, events) ==
  LET after[n \in 0 .. Len(events)] ==
        IF n = 0 THEN old
        ELSE IF HasKey(after[n - 1], events[n].key) THEN after[n - 1]
        ELSE Append(after[n - 1], events[n])
  IN  after[Len(events)]

-----------------------------------------------------------------------------
Idle == [events |-> <<>>, full |-> FALSE, import |-> FALSE]

Init ==
  /\ transcript = <<>> /\ log = <<>> /\ marker = "none"
  /\ job = [p \in Processes |-> Idle] /\ exports = 0

\* OpenCode.  A user may send the next message while the last is answered.
AddMessage ==
  /\ Len(transcript) < MaxMessages
  /\ \E role \in Roles, label \in Labels :
       transcript' = Append(transcript,
         [role |-> role, id |-> label[1], partId |-> label[2],
          text |-> IF role = "user" THEN Words ELSE 0, tool |-> "none",
          open |-> role # "user",
          queued |-> \E n \in DOMAIN transcript : transcript[n].open])
  /\ UNCHANGED <<log, marker, job, exports>>

Change(n, message) ==
  /\ transcript[n].open
  /\ transcript' = [transcript EXCEPT ![n] = message]
  /\ UNCHANGED <<log, marker, job, exports>>

WriteText(n) ==
  transcript[n].text < Words /\ Change(n, [transcript[n] EXCEPT !.text = @ + 1])
CallTool(n) ==
  transcript[n].tool = "none" /\ Change(n, [transcript[n] EXCEPT !.tool = "called"])
FinishTool(n) ==
  transcript[n].tool = "called" /\ Change(n, [transcript[n] EXCEPT !.tool = "finished"])
\* A part may have an output and no input.
AnswerTool(n) ==
  transcript[n].tool = "none" /\ Change(n, [transcript[n] EXCEPT !.tool = "answered"])
Close(n) == Change(n, [transcript[n] EXCEPT !.open = FALSE])

\* An export without a supported message is an error, which changes nothing.
Read(p, full, import) ==
  /\ job[p] = Idle /\ exports < MaxExports
  /\ Export(full) # <<>>
  /\ exports' = exports + 1
  /\ job' = [job EXCEPT ![p] = [events |-> Export(full), full |-> full, import |-> import]]
  /\ UNCHANGED <<transcript, log, marker>>

\* cb import, with or without --full.
Import(p) == \E full \in BOOLEAN : Read(p, full, TRUE)

\* A continuation reads the form its link stands for.
Refresh(p) == marker # "none" /\ Read(p, marker = "full", FALSE)

\* An import renews the link together with the events.
Store(p) ==
  /\ job[p] # Idle
  /\ log' = Appended(log, job[p].events)
  /\ marker' = IF ~ job[p].import THEN marker ELSE IF job[p].full THEN "full" ELSE "plain"
  /\ job' = [job EXCEPT ![p] = Idle]
  /\ UNCHANGED <<transcript, exports>>

\* The link of an agent that exits is renewed with the profile alone.
Relink ==
  /\ marker = "full"
  /\ marker' = "plain"
  /\ UNCHANGED <<transcript, log, job, exports>>

Next ==
  \/ AddMessage \/ Relink
  \/ \E n \in DOMAIN transcript :
       WriteText(n) \/ CallTool(n) \/ FinishTool(n) \/ AnswerTool(n) \/ Close(n)
  \/ \E p \in Processes : Import(p) \/ Refresh(p) \/ Store(p)

Spec == Init /\ [][Next]_vars

-----------------------------------------------------------------------------
TypeOK ==
  /\ transcript \in Seq(Message) /\ marker \in {"none", "plain", "full"}
  /\ \A i \in DOMAIN log : log[i].of \in DOMAIN transcript
  /\ \A i, j \in DOMAIN log : log[i].key = log[j].key => i = j

\* A list tells of the message, the call or the result that an event tells of.
Recorded(e, l) ==
  \E i \in DOMAIN l : l[i].of = e.of /\ l[i].key.tag = e.key.tag /\ l[i].key.full = e.key.full

\* Another message has a tool part of the same name: neither the messages nor
\* their parts carry ids.
NameShared(e) ==
  /\ e.key.tag # "message"
  /\ \E m \in DOMAIN transcript \ {e.of} :
       PartName(m) = e.key.name /\ transcript[m].tool # "none"

\* Once an export is stored, every message it showed, and every call and result
\* whose name no other tool part has, is told in the log in that form, whichever
\* other exports were read and stored in between.  Those of parts that share a
\* name are the subject of NoRecordShadowed.
EveryRecordStored ==
  [][\A p \in Processes :
       Store(p) => \A k \in DOMAIN job[p].events :
                     NameShared(job[p].events[k]) \/ Recorded(job[p].events[k], log')]_vars

\* What the documentation of an import says: the records of an export are
\* preserved completely, those of tool parts in messages without an id too.
NoRecordShadowed ==
  [][\A p \in Processes :
       Store(p) => \A k \in DOMAIN job[p].events : Recorded(job[p].events[k], log')]_vars

\* The result of a tool never stands in the log before its call of that form,
\* although exports taken while it ran show the call alone; a part without an
\* input has a result and no call.
ResultFollowsCall ==
  \A i \in DOMAIN log :
    (log[i].key.tag = "result" /\ transcript[log[i].of].tool # "answered") =>
      \E h \in 1 .. i - 1 : log[h].key = [log[i].key EXCEPT !.tag = "call"]

\* In each form the records of a message precede those of every later message,
\* unless that was sent while an earlier one was still being answered: exports
\* read at different times and stored in any order do not mix them.
MessagesInOrder ==
  \A i, j \in DOMAIN log :
    (i < j /\ log[i].key.full = log[j].key.full /\ log[j].of < log[i].of)
      => \E n \in log[j].of + 1 .. log[i].of : transcript[n].queued

\* What the documentation of an import says: once stored, an export is in the
\* log as it was, its texts included.
ExportIsStored ==
  [][\A p \in Processes :
       Store(p) => \A k \in DOMAIN job[p].events :
                     \E i \in DOMAIN log' : log'[i] = job[p].events[k]]_vars
=============================================================================

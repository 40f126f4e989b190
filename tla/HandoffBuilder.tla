--------------------------- MODULE HandoffBuilder ---------------------------
(***************************************************************************)
(* How the events of a session become a handoff package of bounded size    *)
(* (crates/cb-context: HandoffBuilder::build and compact_to_budget).       *)
(*                                                                         *)
(* An event is its kind, what decides whether it may be shown, and the     *)
(* tokens its item adds to the package; the estimate of a package is the   *)
(* sum of what its parts add.  Texts and their redaction are left out, and *)
(* so is the recommended next action, one more part that is never dropped. *)
(***************************************************************************)
EXTENDS Integers, Sequences, SequencesExt, FiniteSetsExt

CONSTANTS
  Events,       \* the events a log may hold
  MaxEvents,    \* longest log of the instance
  Budgets,      \* budgets a user may ask for, in tokens
  Diffs,        \* tokens of the staged and of the unstaged diff
  Fixed,        \* tokens of the fields that are always there
  Placeholder,  \* tokens of the note that describes the working tree
  NoId          \* the event has no external id

Kinds == {"user", "assistant", "system", "command", "read", "change", "test", "decision",
          "assumption", "error", "resolved", "checkpoint", "git", "tool"}

\* What reduce_event pushes an event of each kind to.
ListsOf == [k \in Kinds |->
  CASE k \in {"user", "assistant", "system"} -> {"recent_conversation"}
    [] k = "command"    -> {"commands"}
    [] k = "read"       -> {"relevant_files"}
    [] k = "change"     -> {"modified_files"}
    [] k = "test"       -> {"tests"}
    [] k = "decision"   -> {"decisions"}
    [] k = "assumption" -> {"assumptions"}
    [] k = "error"      -> {"errors"}
    [] k = "resolved"   -> {"errors", "failed_approaches"}
    [] k = "checkpoint" -> {"current_state", "completed_work", "pending_tasks"}
    [] k = "git"        -> {"current_state"}
    [] k = "tool"       -> {}]

\* The phases of compact_to_budget, least important first.
Order ==
  <<"failed_approaches", "commands", "relevant_files", "recent_conversation",
    "completed_work", "tests", "pending_tasks", "diff",
    "errors", "decisions", "assumptions", "current_state", "modified_files">>

\* The lists of a HandoffPackage.
Lists ==
  {"completed_work", "current_state", "decisions", "assumptions", "failed_approaches",
   "modified_files", "relevant_files", "commands", "tests", "errors", "pending_tasks",
   "recent_conversation"}

\* hidden: the sensitivity is Secret or Excluded.  excluded: the path policy
\* excludes the file.  parser: the OpenCode export the event came from.
ASSUME EventsTyped ==
  \A e \in Events :
    /\ e.kind \in Kinds /\ {e.hidden, e.excluded} \subseteq BOOLEAN
    /\ e.excluded => e.kind \in {"read", "change"}
    /\ e.parser \in {"none", "sanitized", "full"} /\ e.size \in Nat \ {0}
ASSUME NumbersTyped ==
  Budgets \cup {MaxEvents, Fixed, Placeholder} \subseteq Nat /\ Diffs \subseteq Nat \X Nat

VARIABLES
  events,   \* the log, in sequence order
  budget,
  diff,     \* tokens of the two Git diffs of the package
  package,  \* the items of each list, as positions of the log: the events are
            \* reduced in order, so a list is in the order of the positions, and
            \* its oldest item is the least; 0 is the note on the working tree
  phase,    \* what build does next
  at,       \* the phase of the compactor
  begun     \* diff and package when the compactor started

vars == <<events, budget, diff, package, phase, at, begun>>

-----------------------------------------------------------------------------
SizeOf(i) == IF i = 0 THEN Placeholder ELSE events[i].size

\* term[0] + ... + term[n]
SumTo(term, n) ==
  LET upTo[k \in 0 .. n] == IF k = 0 THEN term[0] ELSE upTo[k - 1] + term[k]
  IN  upTo[n]

Positions == 0 .. Len(events)

Weight(items) ==
  SumTo([i \in Positions |-> IF i \in items THEN SizeOf(i) ELSE 0], Len(events))

\* Fault: a sanitized record is shown next to the full one.
VisibleTwice(i) == ~ events[i].hidden

\* A sanitized record gives way to a full one of the same external id.
Visible(i) ==
  /\ ~ events[i].hidden
  /\ ~ /\ events[i].parser = "sanitized" /\ events[i].id # NoId
       /\ \E j \in DOMAIN events :
            events[j].parser = "full" /\ events[j].id = events[i].id

VisibleEvents == {i \in DOMAIN events : Visible(i)}

UserMessages == {i \in VisibleEvents : events[i].kind = "user"}

\* The messages that may be shown.
Conversation == {i \in VisibleEvents : events[i].kind \in {"user", "assistant", "system"}}

\* Tokens no phase can remove; the original and the current objective are the
\* first and the last user message.
Required ==
  Fixed + IF UserMessages = {} THEN 0
          ELSE SizeOf(Min(UserMessages)) + SizeOf(Max(UserMessages))

\* What the parts of a package add, in the order of the phases that cut them.
Parts(lists, d) ==
  [n \in 0 .. Len(Order) |->
     IF n = 0 THEN Required
     ELSE IF Order[n] = "diff" THEN d[1] + d[2] ELSE Weight(lists[Order[n]])]

Estimate(lists, d) == SumTo(Parts(lists, d), Len(Order))

\* An import key holds the id of a record and the version of the parser, so a
\* log has a record at most once in each form.
KeysAreUnique(log) ==
  \A i, j \in {k \in DOMAIN log : log[k].id # NoId} :
    log[i].parser = log[j].parser /\ log[i].id = log[j].id => i = j

Empty == [l \in Lists |-> {}]

Init ==
  /\ events \in {log \in BoundedSeq(Events, MaxEvents) : KeysAreUnique(log)}
  /\ budget \in Budgets
  /\ diff \in Diffs
  /\ package = Empty
  /\ phase = "reduce" /\ at = 1
  /\ begun = [diff |-> diff, package |-> Empty]

-----------------------------------------------------------------------------
\* Each visible event is reduced to items; a file outside the policy to none.
Reduce ==
  /\ phase = "reduce"
  /\ package' = [l \in Lists |->
       {i \in VisibleEvents : l \in ListsOf[events[i].kind] /\ ~ events[i].excluded}]
  /\ phase' = "window"
  /\ UNCHANGED <<events, budget, diff, at, begun>>

\* Fault: the window is filled from the oldest message.
WindowOfOldest(conversation, room) ==
  LET to(k) == {i \in conversation : i <= k}
      fits == {k \in Positions : Weight(to(k)) <= room}
  IN  to(Max(fits))

\* latest_conversation_within_budget
WindowOf(conversation, room) ==
  LET from(k) == {i \in conversation : i >= k}
      fits == {k \in 0 .. Len(events) + 1 : Weight(from(k)) <= room}
  IN  from(Min(fits))

\* The conversation may fill what the other lists and a reserve leave.  A
\* package that says nothing about the state gets a note on the working tree.
Window ==
  LET conversation == package["recent_conversation"]
      structured == Estimate([package EXCEPT !["recent_conversation"] = {}], diff)
      room == Max({0, budget - (structured + 64)})
      windowed == [package EXCEPT
        !["recent_conversation"] = WindowOf(conversation, room),
        !["current_state"] = IF @ = {} THEN {0} ELSE @]
  IN
  /\ phase = "window"
  /\ package' = windowed
  /\ begun' = [diff |-> diff, package |-> windowed]
  /\ phase' = IF budget = 0 THEN "failed" ELSE "compact"
  /\ UNCHANGED <<events, budget, diff, at>>

Exceeds == Estimate(package, diff) > budget

\* Fault: the newest item of a list goes first.
DiscardNewest ==
  /\ phase = "compact" /\ at <= Len(Order) /\ Order[at] # "diff"
  /\ Exceeds /\ package[Order[at]] # {}
  /\ package' = [package EXCEPT ![Order[at]] = @ \ {Max(@)}]
  /\ UNCHANGED <<events, budget, diff, phase, at, begun>>

DiscardOldest ==
  /\ phase = "compact" /\ at <= Len(Order) /\ Order[at] # "diff"
  /\ Exceeds /\ package[Order[at]] # {}
  /\ package' = [package EXCEPT ![Order[at]] = @ \ {Min(@)}]
  /\ UNCHANGED <<events, budget, diff, phase, at, begun>>

\* Fault: a list is skipped.
SkipList ==
  /\ phase = "compact" /\ at <= Len(Order) /\ Order[at] # "diff"
  /\ ~ Exceeds \/ package[Order[at]] = {}
  /\ at' = at + 2
  /\ UNCHANGED <<events, budget, diff, package, phase, begun>>

NextList ==
  /\ phase = "compact" /\ at <= Len(Order) /\ Order[at] # "diff"
  /\ ~ Exceeds \/ package[Order[at]] = {}
  /\ at' = at + 1
  /\ UNCHANGED <<events, budget, diff, package, phase, begun>>

\* A diff keeps a prefix of a sixteenth of the budget (truncate_to_tokens).
Cut(d) == LET most == budget \div 16 IN <<Min({d[1], most}), Min({d[2], most})>>

\* Fault: the diffs are never cut.
KeepDiff ==
  /\ phase = "compact" /\ at <= Len(Order) /\ Order[at] = "diff"
  /\ at' = at + 1
  /\ UNCHANGED <<events, budget, diff, package, phase, begun>>

TruncateDiff ==
  /\ phase = "compact" /\ at <= Len(Order) /\ Order[at] = "diff"
  /\ diff' = IF Exceeds THEN Cut(diff) ELSE diff
  /\ at' = at + 1
  /\ UNCHANGED <<events, budget, package, phase, begun>>

Finish ==
  /\ phase = "compact" /\ at > Len(Order)
  /\ phase' = IF Exceeds THEN "failed" ELSE "done"
  /\ UNCHANGED <<events, budget, diff, package, at, begun>>

Next == Reduce \/ Window \/ DiscardOldest \/ NextList \/ TruncateDiff \/ Finish

Spec == Init /\ [][Next]_vars

-----------------------------------------------------------------------------
TypeOK ==
  /\ events \in Seq(Events) /\ budget \in Budgets /\ diff \in Nat \X Nat
  /\ phase \in {"reduce", "window", "compact", "failed", "done"}
  /\ at \in 1 .. Len(Order) + 1
  /\ package \in [Lists -> SUBSET Positions]

\* items are the newest of a list.
IsSuffixOf(items, of) == items \subseteq of /\ \A i \in items, j \in of \ items : j < i

\* A package that is returned fits the budget, and building one fails only
\* when not even the required parts and the truncated diffs would fit: no
\* order of discarding could have saved it.
FitsOrCannot ==
  /\ phase = "done" => Estimate(package, diff) <= budget
  /\ phase = "failed" => budget = 0 \/ Estimate(Empty, Cut(begun.diff)) > budget

\* The conversation of a package is the newest part of the messages that may be
\* shown, without a hole, through window and compaction; and the window leaves
\* a message out only when it does not fit next to the other lists, all of
\* them as they are before compaction, and the reserve.
NewestConversation ==
  LET window == begun.package["recent_conversation"]
      others == [begun.package EXCEPT !["recent_conversation"] = {},
                                      !["current_state"] = @ \ {0}]
      cut == Conversation \ window
  IN  phase \in {"compact", "done"} =>
        /\ IsSuffixOf(package["recent_conversation"], Conversation)
        /\ IsSuffixOf(window, Conversation)
        /\ cut # {} =>
             Estimate(others, begun.diff) + 64 + Weight(window \cup {Max(cut)}) > budget

\* No event that is hidden, or whose file the policy excludes, leaves an item
\* in a package, and a record imported in both forms is told once.
ShownOnce ==
  \A l \in Lists :
    LET shown == package[l] \ {0} IN
    /\ \A i \in shown : ~ events[i].hidden /\ ~ events[i].excluded
    /\ \A i, j \in shown :
         {events[i].parser, events[j].parser} = {"sanitized", "full"} =>
           events[i].id = NoId \/ events[i].id # events[j].id

Position(l) == CHOOSE n \in DOMAIN Order : Order[n] = l

\* What the window has left is given up from the oldest items of the least
\* important lists, the diffs being cut in their turn, and nothing that could
\* have been kept: had the last item that was given up stayed, the package
\* would not have fitted, with the diffs as they were then.
LeastLoss ==
  phase = "done" =>
    LET lost == {l \in Lists : package[l] # begun.package[l]} IN
    /\ \A l \in Lists : IsSuffixOf(package[l], begun.package[l])
    /\ \A l \in lost, k \in Lists : Position(k) < Position(l) => package[k] = {}
    /\ \A l \in lost : Position(l) > Position("diff") => diff = Cut(begun.diff)
    /\ diff # begun.diff =>
         \A k \in Lists : Position(k) < Position("diff") => package[k] = {}
    /\ \A l \in lost :
         LET given == Max(begun.package[l] \ package[l])
             then == IF Position(l) < Position("diff") THEN begun.diff ELSE diff
         IN  (\A k \in lost : Position(k) <= Position(l)) =>
               Estimate(package, then) + SizeOf(given) > budget

\* A message is given up, by the window or by the compactor, only when the
\* lists of lower priority are empty.
LesserGivenUpFirst ==
  phase = "done" /\ package["recent_conversation"] # Conversation =>
    \A l \in Lists : Position(l) < Position("recent_conversation") => package[l] = {}
=============================================================================

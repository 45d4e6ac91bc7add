------------------------------ MODULE Audience ------------------------------
(***************************************************************************)
(* The Director's half of the broadcast (oracle.director.director): what   *)
(* the viewers send, the card that answers one of them, the shout-outs, the *)
(* hook and the segment, and the timeline of beats written for the report. *)
(* Every operation runs under the Director's lock, with a time its thread  *)
(* read before it took the lock: from one operation to the next the time   *)
(* may go back.  Texts are reduced to what the Director tells apart: a     *)
(* gift, a follow, a question, a command.                                  *)
(***************************************************************************)
EXTENDS TLC, Integers, Sequences, FiniteSets, FiniteSetsExt, SequencesExt

CONSTANTS
    Handles,        \* viewers
    MaxClock,       \* bound: the clock stops here
    Lag,            \* bound: time from a thread's reading of the clock to its lock
    AnswerGap,      \* 45 seconds between answers
    CommandGap,     \* 20 seconds between comments of one handle
    CardTime,       \* 13 seconds on the screen
    ThanksTime,     \* 4 seconds: thanks and shout-outs
    HookTime,       \* 60 seconds: the candle's life
    MaxQuestions,   \* 50: maxlen of the questions
    MaxShouts,      \* 50: maxlen of the shouts
    MaxMessages     \* bound: messages of the audience

ASSUME AudienceConstants ==
    /\ MaxClock \in Nat /\ Lag \in Nat /\ MaxMessages \in Nat
    /\ {AnswerGap, CommandGap, CardTime, ThanksTime, HookTime, MaxQuestions, MaxShouts}
         \subseteq Nat \ {0}

VARIABLES
    clock,          \* the machine's time
    received,       \* messages so far
    card,           \* self.card and self.card_start_ms
    lastAnswer,     \* self.last_answer_ms
    questions,      \* self.questions, by arrival
    lastCommand,    \* self.last_command
    greeted,        \* self.seen
    shouts,         \* how many shout-outs wait
    shoutUntil,     \* self.shout_until, and whether one is shown
    hook,           \* self.active_hook
    segment,        \* self.segment
    marketClosed,   \* self.market_closed
    beats           \* history: the last beat written for each track

audienceVars == <<clock, received, card, lastAnswer, questions, lastCommand, greeted,
                  shouts, shoutUntil, hook, segment, marketClosed, beats>>

NoCard == [kind |-> "NONE", start |-> 0, ends |-> 0]
None   == [id |-> "none", start |-> -1]
NoBeat == [start |-> -1, end |-> -1]
Tracks == {"card", "shout", "hook", "segment"}

Shown(c) == c # NoCard

\* What the thread that has the lock may have read of the clock: its now_ms.
TimesRead == {now \in 0 .. clock : now >= clock - Lag}
-----------------------------------------------------------------------------
(* Cards.  The operators give the card, the queue and the time of the last *)
(* answer after a step; a card is started at the time the step is given.   *)

Card(kind, length, now) == [kind |-> kind, start |-> now, ends |-> now + length]

\* A command counts more than a question; of equals the oldest is taken.
Best(queue) ==
    CHOOSE i \in DOMAIN queue :
        \A j \in DOMAIN queue :
            \/ queue[i].urgent /\ ~queue[j].urgent
            \/ queue[i].urgent = queue[j].urgent /\ i <= j

\* _answer_next(): the three reasons to wait.
MayAnswer(current, queue, now) ==
    /\ now - lastAnswer >= AnswerGap
    /\ queue # <<>>
    /\ ~(Shown(current) /\ current.ends > now)

\* _answer_next(), given the card and the queue it finds.
AnswerNext(current, queue, now) ==
    IF MayAnswer(current, queue, now)
      THEN /\ card' = Card("ANSWER", CardTime, now)
           /\ questions' = RemoveAt(queue, Best(queue))
           /\ lastAnswer' = now
      ELSE /\ card' = current
           /\ questions' = queue
           /\ UNCHANGED lastAnswer
-----------------------------------------------------------------------------
(* ingest().                                                               *)

Capped(n) == IF n > MaxShouts THEN MaxShouts ELSE n

\* Fault: thanks take the screen at once.
FaultThanksMayShow(now) == TRUE

ThanksMayShow(now) == ~Shown(card) \/ card.ends <= now

Gift(now) ==
    /\ shouts' = Capped(shouts + 1)
    /\ card' = IF ThanksMayShow(now) THEN Card("THANKS", ThanksTime, now) ELSE card
    /\ UNCHANGED <<questions, lastAnswer, lastCommand, greeted>>

Follow ==
    /\ shouts' = Capped(shouts + 1)
    /\ UNCHANGED <<card, questions, lastAnswer, lastCommand, greeted>>

\* The oldest of a full queue makes room.
Queued(q) ==
    LET longer == Append(questions, q) IN
    IF Len(longer) > MaxQuestions THEN Tail(longer) ELSE longer

\* A first comment is greeted even when it comes too soon to count.
Comment(h, asks, urgent, now) ==
    /\ greeted' = greeted \cup {h}
    /\ shouts' = IF h \in greeted THEN shouts ELSE Capped(shouts + 1)
    /\ IF now - lastCommand[h] < CommandGap
         THEN UNCHANGED <<card, questions, lastAnswer, lastCommand>>
         ELSE /\ lastCommand' = [lastCommand EXCEPT ![h] = now]
              /\ IF asks THEN AnswerNext(card, Queued([by |-> h, urgent |-> urgent]), now)
                 ELSE UNCHANGED <<card, questions, lastAnswer>>

Ingest ==
    /\ received < MaxMessages
    /\ received' = received + 1
    /\ \E now \in TimesRead :
          \/ Gift(now)
          \/ Follow
          \/ \E h \in Handles, asks, urgent \in BOOLEAN : Comment(h, asks, urgent, now)
    /\ UNCHANGED <<clock, shoutUntil, hook, segment, marketClosed, beats>>
-----------------------------------------------------------------------------
(* view(): what has ended gets its beat, what comes next is started.       *)

Beat(start, end) == [start |-> start, end |-> end]

CardOver(now) == Shown(card) /\ now >= card.ends

ShoutBeat == Beat(shoutUntil.at - ThanksTime, shoutUntil.at)

ShoutOver(now) == shoutUntil.shown /\ now >= shoutUntil.at

\* The hook on the screen: the close of the running candle, or the next session.
NextHook(now) == IF marketClosed THEN "session" ELSE ToString((now \div HookTime + 1) * HookTime)

NextSegment == IF Shown(card') THEN "VIEWER_ANSWER" ELSE "LIVE_CHART"

\* Fault: the next hook begins when the last one was planned to end.
FaultSuccessor(old, id, now) ==
    IF old.id = id THEN old ELSE [id |-> id, start |-> (now \div HookTime) * HookTime]

\* What is on a track after a view: the same, or the new one from now.
Successor(old, id, now) == IF old.id = id THEN old ELSE [id |-> id, start |-> now]

\* The beat of what a view replaces.
BeatOf(track, old, id, now) ==
    IF old # None /\ old.id # id THEN Beat(old.start, now) ELSE beats[track]

ViewAt(now) ==
    /\ AnswerNext(IF CardOver(now) THEN NoCard ELSE card, questions, now)
    /\ shoutUntil' = IF now < shoutUntil.at THEN shoutUntil
                     ELSE [shown |-> shouts > 0,
                           at |-> IF shouts > 0 THEN now + ThanksTime ELSE shoutUntil.at]
    /\ shouts' = IF now >= shoutUntil.at /\ shouts > 0 THEN shouts - 1 ELSE shouts
    /\ hook' = Successor(hook, NextHook(now), now)
    /\ segment' = Successor(segment, NextSegment, now)
    /\ beats' = [card |-> IF CardOver(now) THEN Beat(card.start, card.ends) ELSE beats["card"],
                 shout |-> IF ShoutOver(now) THEN ShoutBeat ELSE beats["shout"],
                 hook |-> BeatOf("hook", hook, NextHook(now), now),
                 segment |-> BeatOf("segment", segment, NextSegment, now)]

Look ==
    /\ \E now \in TimesRead : ViewAt(now)
    /\ UNCHANGED <<clock, received, lastCommand, greeted, marketClosed>>

SetSession ==
    /\ marketClosed' = ~marketClosed /\ received < MaxMessages
    /\ received' = received + 1
    /\ UNCHANGED <<clock, card, lastAnswer, questions, lastCommand, greeted, shouts,
                   shoutUntil, hook, segment, beats>>

ClockTick ==
    /\ clock < MaxClock
    /\ clock' = clock + 1
    /\ UNCHANGED <<received, card, lastAnswer, questions, lastCommand, greeted, shouts,
                   shoutUntil, hook, segment, marketClosed, beats>>
-----------------------------------------------------------------------------
AudienceInit ==
    /\ clock = 0 /\ received = 0
    /\ card = NoCard /\ lastAnswer = -AnswerGap /\ questions = <<>>
    /\ lastCommand = [h \in Handles |-> -CommandGap] /\ greeted = {}
    /\ shouts = 0 /\ shoutUntil = [shown |-> FALSE, at |-> 0]
    /\ hook = None /\ segment = None /\ marketClosed = FALSE
    /\ beats = [track \in Tracks |-> NoBeat]

AudienceNext == Ingest \/ Look \/ SetSession \/ ClockTick

AudienceSpec == AudienceInit /\ [][AudienceNext]_audienceVars
-----------------------------------------------------------------------------
(* Properties.                                                             *)

\* Every variable has its type and every queue its bound.
AudienceTypeOK ==
    /\ clock \in 0 .. MaxClock /\ received \in 0 .. MaxMessages
    /\ Len(questions) <= MaxQuestions /\ shouts \in 0 .. MaxShouts
    /\ card.kind \in {"NONE", "ANSWER", "THANKS"} /\ card.start <= clock
    /\ hook.start <= clock /\ segment.start <= clock

\* An answer or a thank-you stays on the screen until its time has come, whatever else
\* arrives and whoever looks with whatever time.
CardsAreNotCut == [][Shown(card) /\ card' # card => clock' >= card.ends]_audienceVars

\* Two answers are never closer than the gap, though comments, gifts and the views of
\* three threads can each bring the next one up, and a late thread brings an old time.
AnswersAreSpaced ==
    [][card'.kind = "ANSWER" /\ card' # card => lastAnswer' - lastAnswer >= AnswerGap]_audienceVars

\* Hooks and segments tile the stream: a beat begins where the last one ended, and
\* what is on the screen began where its track's last beat ended.
BeatsTile ==
    /\ beats["hook"] # NoBeat => hook.start = beats["hook"].end
    /\ beats["segment"] # NoBeat => segment.start = beats["segment"].end

\* A card may be dated before the end of the one before it, and a hook or a segment
\* may be replaced at a time before its own, by no more than a thread is late.
Overlap(track) == IF track = "card" THEN Lag ELSE 0
Setback(track) == IF track \in {"hook", "segment"} THEN Lag ELSE 0

\* The beats of a track follow one another: a shout's never overlap or run backwards,
\* and the others only as far as a thread was late to the lock.
BeatsAdvance ==
    [][ \A track \in Tracks :
          beats'[track] # beats[track] =>
            /\ beats'[track].start >= beats[track].end - Overlap(track)
            /\ beats'[track].end >= beats'[track].start - Setback(track) ]_audienceVars

\* What a step of the show may not do to what is on the screen.
ShowKeepsItsWord == CardsAreNotCut /\ AnswersAreSpaced /\ BeatsAdvance
=============================================================================

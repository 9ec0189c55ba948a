----------------------------- MODULE Playground ------------------------------
(***************************************************************************)
(* The chat of the playground: playground-screen.tsx, use-chat-queue.ts    *)
(* (one turn at a time, the others wait), use-chat-stream.ts (what arrives *)
(* is buffered until the next animation frame).  One buffer, one frame and *)
(* one abort controller serve all turns.                                   *)
(*                                                                         *)
(* A turn is named by the number of its prompt, and what it asks for (the  *)
(* model, the parameters) is a choice.  A message is a prompt or an answer *)
(* whose content is the pieces in it.                                      *)
(* db: how many pieces of each turn's answer the server has sent.          *)
(***************************************************************************)
EXTENDS Screens

CONSTANTS
    Prompts,       \* bound: prompts of a visit
    Pieces,        \* bound: pieces of an answer
    MaxMessages,   \* MAX_PLAYGROUND_MESSAGES
    Selections        \* models and parameters to choose

ASSUME TurnsAssumption ==
    /\ Prompts \in Nat /\ MaxMessages \in Nat \ {0}
    /\ None \notin 1..Prompts

Turns == 1..Prompts
Failure == <<"failure">>    \* the text of an error, in the place of an answer

Prompt(t, status) == [of |-> t, role |-> "user", status |-> status, content |-> <<>>]
AnswerTo(t)       == [of |-> t, role |-> "assistant", status |-> "none", content |-> <<>>]

ChatInit ==
    /\ screen = "chat"
    /\ local = [left |-> 1, typed |-> 0, choice |-> CHOOSE c \in Selections : TRUE, lock |-> FALSE,
                msgs |-> <<>>, queue |-> <<>>, running |-> None, buffer |-> <<>>, frame |-> None,
                logs |-> <<>>,
                sent |-> <<>>, asked |-> <<>>]
    /\ calls = NoCalls
    /\ db = [t \in Turns |-> 0]

-----------------------------------------------------------------------------
\* updateMessages: the last ones are kept.
Kept(msgs) == IF Len(msgs) <= MaxMessages THEN msgs ELSE SubSeq(msgs, Len(msgs) - MaxMessages + 1, Len(msgs))
IsPrompt(m, t) == m.of = t /\ m.role = "user"
IsAnswer(m, t) == m.of = t /\ m.role = "assistant"

markUserStatus(msgs, t, status) ==
    [i \in DOMAIN msgs |-> IF IsPrompt(msgs[i], t) THEN [msgs[i] EXCEPT !.status = status] ELSE msgs[i]]

\* A prompt that fell off the list comes back at its end.
insertAssistantMessage(msgs, t) ==
    LET at == {i \in DOMAIN msgs : IsPrompt(msgs[i], t)}
        marked == markUserStatus(msgs, t, "sending")
    IN  IF at = {} THEN Kept(msgs \o <<Prompt(t, "sending"), AnswerTo(t)>>)
        ELSE LET k == CHOOSE i \in at : TRUE
             IN  Kept(SubSeq(marked, 1, k) \o <<AnswerTo(t)>> \o SubSeq(marked, k + 1, Len(marked)))

\* buildApiMessages: what is above the prompt, without what waits and what is
\* empty; each message at its place.
buildApiMessages(msgs, t) ==
    LET at == {i \in DOMAIN msgs : IsPrompt(msgs[i], t)}
        above == IF at = {} THEN DOMAIN msgs ELSE 1..(CHOOSE i \in at : TRUE) - 1
        told(m) == m.status # "queued" /\ (m.role = "user" \/ m.content # <<>>)
    IN  [i \in {i \in above : told(msgs[i])} |-> msgs[i]]

\* processQueue and sendTurn, as far as their first await.
processQueue(l, cs) ==
    IF l.running # None \/ l.queue = <<>> THEN [l |-> l, cs |-> cs]
    ELSE LET t == Head(l.queue).turn IN
         [l |-> [l EXCEPT !.queue = Tail(@), !.running = t, !.msgs = insertAssistantMessage(@, t),
                          !.sent = Append(@, [turn |-> t, with |-> Head(l.queue).with, history |-> buildApiMessages(l.msgs, t)])],
          cs |-> Plus(cs, Call("chat", t))]

\* The model selector and PlaygroundParamsPanel: the choice is changed.
Choose(c) == local.choice # c /\ local.typed \in 1..Prompts - 1 /\ ~local.lock /\ Ask([local EXCEPT !.choice = c], calls)

\* handleSend, enqueueTurn; a second click within 200 ms does nothing.
handleSend ==
    LET t == local.typed + 1
        status == IF local.running = None THEN "sending" ELSE "queued"
        next == processQueue([local EXCEPT !.typed = t, !.lock = TRUE,
                                           !.msgs = Kept(Append(@, Prompt(t, status))),
                                           !.queue = Append(@, [turn |-> t, with |-> local.choice]),
                                           !.asked = Append(@, local.choice)], calls)
    IN  local.typed < Prompts /\ ~local.lock /\ Do(next.l, next.cs)
LockOpens == local.lock /\ Do([local EXCEPT !.lock = FALSE], calls)

-----------------------------------------------------------------------------
\* flushDelta: the buffer goes to the answer of turn t, if it is still there.
withDelta(msgs, t, delta) ==
    [i \in DOMAIN msgs |-> IF IsAnswer(msgs[i], t) THEN [msgs[i] EXCEPT !.content = @ \o delta] ELSE msgs[i]]
flushDelta(l, t) == [l EXCEPT !.frame = None, !.buffer = <<>>, !.msgs = withDelta(@, t, l.buffer)]

\* queueDelta: the frame is asked for by the first piece, for that piece's turn.
queueDelta(l, t, piece) == [l EXCEPT !.buffer = Append(@, piece), !.frame = IF @ = None THEN t ELSE @]

\* A whole line of the stream has arrived (processSseBuffer).
PieceArrives(n) ==
    /\ Sent(n) /\ calls[n].op = "chat"
    /\ LET t == calls[n].arg IN
       /\ db[t] < Pieces
       /\ Reply(queueDelta(local, t, <<t, db[t] + 1>>), calls, [db EXCEPT ![t] = @ + 1])
FrameFires == local.frame # None /\ Do(flushDelta(local, local.frame), calls)

\* onLog: the newest first (the limit of 50 is not reached here).
Logged(l, t, ok) == [l EXCEPT !.logs = <<[turn |-> t, ok |-> ok]>> \o @]

\* The finally of sendTurn, then that of processQueue, which takes the next turn.
Finally(l, cs) ==
    processQueue([l EXCEPT !.frame = None, !.buffer = <<>>, !.running = None], cs)

\* A slip in StreamEnds: what the last frame did not show is dropped.
EndsUnflushed(n) ==
    /\ Sent(n) /\ calls[n].op = "chat"
    /\ LET t == calls[n].arg
           next == Finally(Logged([local EXCEPT !.msgs = markUserStatus(@, t, "done")], t, TRUE), Minus(calls, n))
       IN  Do(next.l, next.cs)

StreamEnds(n) ==
    /\ Sent(n) /\ calls[n].op = "chat"
    /\ LET t == calls[n].arg
           shown == flushDelta(local, t)
           next == Finally(Logged([shown EXCEPT !.msgs = markUserStatus(@, t, "done")], t, TRUE), Minus(calls, n))
       IN  Do(next.l, next.cs)

\* The request, its answer or its stream fails: the error stands where the answer was.
StreamFails(n) ==
    /\ Sent(n) /\ calls[n].op = "chat"
    /\ LET t == calls[n].arg
           failed == [i \in DOMAIN local.msgs |->
                         IF IsAnswer(local.msgs[i], t) THEN [local.msgs[i] EXCEPT !.content = Failure, !.status = "error"]
                         ELSE local.msgs[i]]
           next == Finally(Logged([local EXCEPT !.msgs = markUserStatus(failed, t, "error")], t, FALSE), Minus(calls, n))
       IN  Do(next.l, next.cs)

\* clearQueue: the abort ends the turn under way (its catch and finally run
\* before the next event); being of an old generation it starts no other.
handleClear ==
    /\ local.msgs # <<>>
    /\ LET l == IF local.running = None THEN local ELSE Logged(local, local.running, FALSE) IN
       Do([l EXCEPT !.queue = <<>>, !.running = None, !.msgs = <<>>, !.buffer = <<>>, !.frame = None],
          NoCalls)

\* The tab with the requests: the one selected is a matter of the view.
ClearLogs == local.logs # <<>> /\ Ask([local EXCEPT !.logs = <<>>], calls)

ChatAnswers(n) == PieceArrives(n) \/ StreamEnds(n) \/ StreamFails(n)

ChatNext ==
    \/ handleSend \/ LockOpens \/ FrameFires \/ handleClear \/ ClearLogs
    \/ \E c \in Selections : Choose(c)
    \/ \E n \in DOMAIN calls : ChatAnswers(n)

-----------------------------------------------------------------------------
(* The views. *)
isError(m)     == m.status = "error" /\ m.role = "assistant"
ChatView(msgs) == [i \in DOMAIN msgs |->
    IF isError(msgs[i]) THEN "error" ELSE IF msgs[i].role = "user" THEN msgs[i].status
    ELSE IF msgs[i].content = <<>> THEN "streaming" ELSE "answer"]

\* Under the list: what is streaming, and how many prompts wait.
Composer(l) == [streaming |-> l.running # None, queued |-> Len(l.queue)]

\* Where the request stands whose details are shown, if it is still listed.
PlaygroundLogView(logs, selected) == {i \in DOMAIN logs : logs[i].turn = selected}

-----------------------------------------------------------------------------
\* Every prompt is sent once, in the order of typing, with the model and the
\* parameters of the moment it was typed, and with a history that
\* holds only earlier turns and their whole answers; an answer holds only
\* pieces of its own turn, in order, and all of them when its turn is done: no
\* piece is lost between the buffer, the frames and the end of a stream, and
\* none reaches another turn through the buffer that they share.  A prompt marked
\* as queued waits, nothing waits while nothing streams, and no turn is logged twice.
TurnsInOrder ==
    screen = "chat" =>
        LET whole(m) == m.content = Failure \/ m.content = [k \in 1..db[m.of] |-> <<m.of, k>>]
            isDone(t) == \E i \in DOMAIN local.msgs : IsPrompt(local.msgs[i], t) /\ local.msgs[i].status = "done" IN
        /\ \A i, j \in DOMAIN local.sent : i < j => local.sent[i].turn < local.sent[j].turn
        /\ \A i \in DOMAIN local.sent : local.sent[i].with = local.asked[local.sent[i].turn]
        /\ \A i \in DOMAIN local.sent : \A k \in DOMAIN local.sent[i].history :
              LET m == local.sent[i].history[k] IN
              /\ m.of < local.sent[i].turn
              /\ m.role = "assistant" => whole(m)
        /\ \A i \in DOMAIN local.msgs :
              LET m == local.msgs[i] IN
              m.role = "assistant" =>
                  /\ m.content = Failure \/ m.content = [k \in 1..Len(m.content) |-> <<m.of, k>>]
                  /\ isDone(m.of) => whole(m)
        /\ Composer(local).queued > 0 => Composer(local).streaming
        /\ \A t \in Turns : \A i, j \in PlaygroundLogView(local.logs, t) : i = j
        /\ \A i, j \in DOMAIN local.logs : i < j => local.logs[i].turn > local.logs[j].turn
        /\ \A i \in DOMAIN ChatView(local.msgs) :
              ChatView(local.msgs)[i] = "queued" => \E k \in DOMAIN local.queue : local.queue[k].turn = local.msgs[i].of

\* Prompts wait in the queue until they are sent or cleared.
PromptsWait == screen = "chat" /\ local.queue # <<>>
=============================================================================

----------------------------- MODULE IrcQueries -----------------------------
(***************************************************************************)
(* WHOIS, WHO and LIST (src/internal/connector/irc): several lines answer  *)
(* one question, and nothing in them says whose question it was.  What a   *)
(* browser asks is marked before it is written; the dispatcher collects    *)
(* the lines for what is marked, and publishes the result at the last one. *)
(* What a client of the bouncer asks is not marked: it reads the lines     *)
(* itself.  A list is collected and published whoever asked.               *)
(*                                                                         *)
(* The questions and answers of a session travel with its other lines,     *)
(* whose order among these is nobody's concern, and are lost with it.      *)
(***************************************************************************)
EXTENDS IrcSession

CONSTANT Query      \* pairs of a kind and what is asked about

ASSUME QueryAssumption == \A q \in Query : q[1] \in {"whois", "who", "list"}

VARIABLES
    questions,       \* on their way to the server
    replies,         \* lines on their way back: [query, row, first]
    inFlight,        \* what is collected: [marked, rows] of each query
    results,         \* what browsers were shown: [query, rows, split]
    split            \* history: what is collected is not from one answer

queryVars == <<questions, replies, inFlight, results, split>>

Row == {"start", "user", "row", "end", "gone"}
Nothing == [marked |-> FALSE, rows |-> <<>>]

QueryTypeOK ==
    /\ questions \in Seq(Query) /\ split \subseteq Query
    /\ replies \in Seq([query : Query, row : Row, first : BOOLEAN])
    /\ inFlight \in [Query -> [marked : BOOLEAN, rows : Seq(Row)]]
    /\ results \subseteq [query : Query, rows : Seq(Row), split : BOOLEAN]

QueryInit ==
    /\ Init
    /\ questions = <<>> /\ replies = <<>> /\ results = {} /\ split = {}
    /\ inFlight = [q \in Query |-> Nothing]

Lines(q, rows) == [i \in 1..Len(rows) |-> [query |-> q, row |-> rows[i], first |-> i = 1]]

(* A list may begin without a line that says so, and a nick may not be there. *)
Answers(q) ==
    CASE q[1] = "whois" -> {<<"user", "row", "end">>, <<"gone">>}
      [] q[1] = "who"   -> {<<"row", "end">>}
      [] q[1] = "list"  -> {<<"start", "row", "row", "end">>, <<"row", "row", "end">>}

ServerAnswers ==
    /\ link = "up" /\ questions # <<>> /\ questions' = Tail(questions)
    /\ \E rows \in Answers(Head(questions)) : replies' = replies \o Lines(Head(questions), rows)
    /\ UNCHANGED <<vars, inFlight, results, split>>

(* The dispatcher is in the middle of an answer.                           *)
Amid(q) ==
    \E i \in 1..Len(replies) :
       /\ replies[i].query = q /\ ~replies[i].first
       /\ \A j \in 1..i - 1 : replies[j].query # q

-----------------------------------------------------------------------------
(* Questions.  Bound: they are asked of a server that has welcomed us.     *)

Asks(q) ==
    /\ Command("query") /\ phase \in {"rejoined", "on"}
    /\ questions' = IF link = "up" THEN Append(questions, q) ELSE questions
    /\ UNCHANGED <<phase, out, desiredNick, preferredNick, wanted, clientVars, adrift,
                   replies, results>>

Marks(q) == q[1] # "list" /\ ~inFlight[q].marked

registerWebQuery(q) ==
    /\ Asks(q)
    /\ inFlight' = IF Marks(q) THEN [inFlight EXCEPT ![q] = [marked |-> TRUE, rows |-> <<>>]]
                   ELSE inFlight
    /\ split' = IF Marks(q) /\ Amid(q) THEN split \cup {q} ELSE split

ClientAsks(q) == Asks(q) /\ UNCHANGED <<inFlight, split>>

-----------------------------------------------------------------------------
(* The dispatcher.                                                         *)

Line(kind, rows) ==
    /\ phase = "on" /\ replies # <<>>
    /\ Head(replies).query[1] = kind /\ Head(replies).row \in rows
    /\ replies' = Tail(replies) /\ UNCHANGED <<vars, questions>>

Collects(q, rows) ==
    /\ inFlight' = [inFlight EXCEPT ![q].rows = rows] /\ UNCHANGED <<results, split>>

(* Mutant: what is published is still collected for.                       *)
Publishes_mutant(q, rows) ==
    /\ results' = results \cup {[query |-> q, rows |-> rows, split |-> q \in split]}
    /\ UNCHANGED inFlight /\ split' = split \ {q}

Publishes(q, rows) ==
    /\ results' = results \cup {[query |-> q, rows |-> rows, split |-> q \in split]}
    /\ inFlight' = [inFlight EXCEPT ![q] = Nothing] /\ split' = split \ {q}

(* Nobody at a browser waits for it.                                       *)
Ignores == UNCHANGED <<inFlight, results, split>>

(* What a line says of the user replaces what was said; channels are added. *)
applyWhoisNumeric(rows, row) ==
    IF row = "user" /\ \E i \in 1..Len(rows) : rows[i] = row THEN rows ELSE Append(rows, row)

handleWhoisNumeric ==
    /\ Line("whois", {"user", "row", "end"})
    /\ LET q == Head(replies).query row == Head(replies).row IN
       \/ ~inFlight[q].marked /\ Ignores
       \/ inFlight[q].marked /\ row # "end"
             /\ Collects(q, applyWhoisNumeric(inFlight[q].rows, row))
       \/ inFlight[q].marked /\ row = "end" /\ Publishes(q, inFlight[q].rows)

handleWhoisNoSuchNick ==
    /\ Line("whois", {"gone"})
    /\ LET q == Head(replies).query IN
       IF inFlight[q].marked THEN Publishes(q, <<"gone">>) ELSE Ignores

handleWhoNumeric ==
    /\ Line("who", {"row", "end"})
    /\ LET q == Head(replies).query row == Head(replies).row IN
       \/ ~inFlight[q].marked /\ Ignores
       \/ inFlight[q].marked /\ row # "end" /\ Collects(q, Append(inFlight[q].rows, row))
       \/ inFlight[q].marked /\ row = "end" /\ Publishes(q, inFlight[q].rows)

handleListNumeric ==
    /\ Line("list", {"start", "row", "end"})
    /\ LET q == Head(replies).query row == Head(replies).row IN
       \/ /\ row = "start" /\ inFlight' = [inFlight EXCEPT ![q].rows = <<>>]
          /\ split' = split \ {q} /\ UNCHANGED results
       \/ row = "row" /\ Collects(q, Append(inFlight[q].rows, row))
       \/ row = "end" /\ Publishes(q, inFlight[q].rows)

-----------------------------------------------------------------------------
(* The session beneath.  What it had collected when it ended stays.        *)
Partial == {q \in Query : inFlight[q].rows # <<>>}

SessionStep ==
    /\ Next
    /\ \/ link' = "none" /\ link # "none"
          /\ questions' = <<>> /\ replies' = <<>> /\ split' = split \cup Partial
       \/ link' \in {"closed", "silent"} /\ link = "up"
          /\ questions' = <<>> /\ UNCHANGED <<replies, split>>
       \/ link' = link /\ UNCHANGED <<questions, replies, split>>
       \/ link' = "up" /\ link = "none" /\ UNCHANGED <<questions, replies, split>>
    /\ UNCHANGED <<inFlight, results>>

QueryNext ==
    \/ SessionStep \/ ServerAnswers
    \/ \E q \in Query : registerWebQuery(q) \/ ClientAsks(q)
    \/ handleWhoisNumeric \/ handleWhoisNoSuchNick \/ handleWhoNumeric \/ handleListNumeric

QuerySpec == QueryInit /\ [][QueryNext]_<<vars, queryVars>> /\ Fairness

-----------------------------------------------------------------------------
(* What a browser makes of an answer: its start and its end are not shown. *)
Whole(q) ==
    CASE q[1] = "whois" -> {<<"user", "row">>, <<"gone">>}
      [] q[1] = "who"   -> {<<"row">>}
      [] q[1] = "list"  -> {<<"row", "row">>}

(* What a browser is shown is one answer of the server, whole and once, however
   its questions and those of others overlap; unless the question was marked in
   the middle of an answer to another, or the link broke in the middle of one
   (handleWhoisNumeric, handleWhoNumeric, handleListNumeric).              *)
ResultIsWhole ==
    \A r \in results : ~r.split => r.rows \in Whole(r.query)

=============================================================================

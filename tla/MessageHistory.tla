--------------------------- MODULE MessageHistory ---------------------------
(***************************************************************************)
(* How what is said becomes history, and how a user pages back through it: *)
(* the submitter that hears of a message once from whoever sent it and     *)
(* again from the connector it comes back on (src/internal/runtime), the   *)
(* store (src/internal/messages), and the two readers that page, the       *)
(* bouncer's CHATHISTORY and the gateway's history op.                     *)
(*                                                                         *)
(* Threads: a handler for every event, as the bus gives each one of its    *)
(* own; the senders; the connector's reader of what the server sends; the  *)
(* user who pages.  One channel.  A message is said once, with a text that *)
(* another may share.  Moments are ticks of a clock, which stands still    *)
(* between a handler's look at it and the lock on the next line.           *)
(***************************************************************************)
EXTENDS Integers, FiniteSets, Sequences, SequencesExt

CONSTANTS
    Msg,                \* what is said
    storeDedupeWindow,  \* in ticks
    maxSeen,            \* keys remembered before stale ones are dropped
    perChannelCap,      \* rows the store in memory keeps
    pageLimit,          \* rows a reader asks for
    Books               \* the instances

ASSUME HistoryAssumption ==
    /\ storeDedupeWindow \in Nat \ {0} /\ maxSeen \in Nat /\ IsFiniteSet(Msg)
    /\ perChannelCap \in Nat \ {0} /\ pageLimit \in Nat \ {0}

(* An instance: which messages are said, with what text, and which of them  *)
(* come back from the server; names the connector goes by, the first of     *)
(* them at the start; how long; how coarse the times shown to the reader    *)
(* are; whether the store is behind HTTP; and whether somebody pages.      *)
ASSUME BooksAssumption ==
    \A b \in Books :
       /\ b.said \subseteq Msg /\ b.echoed \subseteq b.said /\ DOMAIN b.text = Msg
       /\ b.names \in Seq(STRING) /\ b.names # <<>>
       /\ b.horizon \in Nat /\ b.grain \in Nat \ {0}
       /\ b.remote \in BOOLEAN /\ b.pages \in BOOLEAN

(* A message is heard of as it is sent, and as it comes back.              *)
Sighting == Msg \X {"sent", "echo"}
Echo(m) == <<m, "echo">>

VARIABLES
    book,            \* the instance
    now,             \* the clock
    names, nick,     \* names the server has yet to give; the one we know of
    wire,            \* what the server sends: names, and messages it returns
    at,              \* where the handler of a sighting is
    key, stamp,      \* what it has found out: text and sender, and the time
    seen,            \* keys remembered, each with the time it came last
    rows,            \* the store: [of |-> sighting, ts |-> time], oldest first
    kept,            \* history: sightings that were stored
    reader           \* the user who pages

clockVars == <<names, nick, wire>>
handlerVars == <<at, key, stamp, seen>>
historyVars == <<book, now, clockVars, handlerVars, rows, kept, reader>>

HandlerPlaces == {"none", "due", "stamped", "first", "done"}
Always == -1

HistoryTypeOK ==
    /\ book \in Books /\ now \in Nat
    /\ at \in [Sighting -> HandlerPlaces]
    /\ DOMAIN key = Sighting /\ DOMAIN stamp = Sighting
    /\ kept \subseteq Sighting /\ reader.pc \in {"idle", "asks", "ended"}

HistoryInit ==
    /\ book \in Books /\ now = 0
    /\ names = Tail(book.names) /\ nick = Head(book.names) /\ wire = <<>>
    /\ at = [x \in Sighting |-> "none"]
    /\ key = [x \in Sighting |-> <<>>] /\ stamp = [x \in Sighting |-> 0]
    /\ seen = {} /\ rows = <<>> /\ kept = {}
    /\ reader = [pc |-> "idle", before |-> Always, wanted |-> {}, shown |-> {}, edges |-> {}]

At(x, there) == at' = [at EXCEPT ![x] = there]

(* The name the server knows us by.                                        *)
Served == IF \E i \in 1..Len(wire) : wire[i].line = "nick"
          THEN Last(SelectSeq(wire, LAMBDA l : l.line = "nick")).nick ELSE nick

PassTime ==
    /\ now < book.horizon /\ now' = now + 1
    /\ \A x \in Sighting : at[x] # "stamped"
    /\ UNCHANGED <<book, clockVars, handlerVars, rows, kept, reader>>

-----------------------------------------------------------------------------
(* What is said, and what the server makes of it.                          *)

(* A line is written, and the event of it published: a bouncer's client, a *)
(* browser, a command's answer.  Servers that echo return it.              *)
Say(m) ==
    /\ m \in book.said /\ at[<<m, "sent">>] = "none"
    /\ At(<<m, "sent">>, "due")
    /\ wire' = IF m \in book.echoed
               THEN Append(wire, [line |-> "message", of |-> m, nick |-> Served]) ELSE wire
    /\ UNCHANGED <<book, now, names, nick, key, stamp, seen, rows, kept, reader>>

Rename ==
    /\ names # <<>> /\ names' = Tail(names)
    /\ wire' = Append(wire, [line |-> "nick", nick |-> Head(names)])
    /\ UNCHANGED <<book, now, nick, handlerVars, rows, kept, reader>>

(* The connector reads a line.  A message goes through its inbox to the    *)
(* agent, which publishes one after the other.                             *)
ReadNick ==
    /\ wire # <<>> /\ Head(wire).line = "nick"
    /\ nick' = Head(wire).nick /\ wire' = Tail(wire)
    /\ UNCHANGED <<book, now, names, handlerVars, rows, kept, reader>>

handlePrivmsg ==
    /\ wire # <<>> /\ Head(wire).line = "message"
    /\ LET x == Echo(Head(wire).of) IN
          /\ at[x] = "none" /\ At(x, "due") /\ key' = [key EXCEPT ![x] = <<Head(wire).nick>>]
    /\ wire' = Tail(wire)
    /\ UNCHANGED <<book, now, names, nick, stamp, seen, rows, kept, reader>>

-----------------------------------------------------------------------------
(* The submitter, one for both events.                                     *)

Serial(x) == x[2] = "echo" =>
                \A y \in Sighting : y[2] = "echo" => at[y] \notin {"stamped", "first"}

(* Who, what and when.  What was sent is by the name we go by at this moment. *)
Submitter(x) ==
    /\ at[x] = "due" /\ Serial(x) /\ At(x, "stamped")
    /\ LET sender == IF x[2] = "sent" THEN nick ELSE key[x][1] IN
          key' = [key EXCEPT ![x] = <<book.text[x[1]], sender>>]
    /\ stamp' = [stamp EXCEPT ![x] = now]
    /\ UNCHANGED <<book, now, clockVars, seen, rows, kept, reader>>

Fresh(k, t) == \E e \in seen : e.key = k /\ t - e.time < storeDedupeWindow

(* Mutant: when there are too many, all are dropped.                       *)
Remember_mutant(k, t) ==
    LET all == {e \in seen : e.key # k} \cup {[key |-> k, time |-> t]}
    IN  IF Cardinality(all) > maxSeen /\ ~Fresh(k, t) THEN {} ELSE all

(* The key is remembered as of now.  If that makes too many, those whose    *)
(* window is over are dropped.                                             *)
Remember(k, t) ==
    LET all == {e \in seen : e.key # k} \cup {[key |-> k, time |-> t]}
    IN  IF Cardinality(all) > maxSeen /\ ~Fresh(k, t)
        THEN {e \in all : t - e.time < storeDedupeWindow} ELSE all

(* Under its lock: is this the first of its key within the window?         *)
FirstSight(x) ==
    /\ at[x] = "stamped"
    /\ At(x, IF Fresh(key[x], stamp[x]) THEN "done" ELSE "first")
    /\ seen' = Remember(key[x], stamp[x])
    /\ UNCHANGED <<book, now, clockVars, key, stamp, rows, kept, reader>>

-----------------------------------------------------------------------------
(* The store.                                                              *)

(* What fits: in memory the oldest fall off.                               *)
Kept(rs) == IF book.remote \/ Len(rs) <= perChannelCap THEN rs
            ELSE SubSeq(rs, Len(rs) - perChannelCap + 1, Len(rs))

Submit(x) ==
    /\ at[x] = "first" /\ At(x, "done")
    /\ rows' = Kept(Append(rows, [of |-> x, ts |-> stamp[x]])) /\ kept' = kept \cup {x}
    /\ UNCHANGED <<book, now, clockVars, key, stamp, seen, reader>>

(* The rows older than a time, by their places in the store.               *)
OlderThan(before) == {i \in 1..Len(rows) : before = Always \/ rows[i].ts < before}

(* Mutant: the oldest of them.                                             *)
Recent_mutant(before, limit) ==
    LET older == OlderThan(before)
    IN  {i \in older : Cardinality({j \in older : j < i}) < limit}

(* The newest rows strictly older than a time: those with fewer than so many
   newer ones among them.                                                  *)
Recent(before, limit) ==
    LET older == OlderThan(before)
    IN  {i \in older : Cardinality({j \in older : j > i}) < limit}

-----------------------------------------------------------------------------
(* The user pages back.                                                    *)

RowsOf(page) == {rows[i].of : i \in page}

(* The time of a row as the reader is shown it.                            *)
Shown(t) == t - (t % book.grain)

(* A full page makes the reader ask for what is older than its oldest row; any
   other is the last.                                                      *)
Page(page) ==
    LET read == [reader EXCEPT
                    !.shown = @ \cup RowsOf(page),
                    !.wanted = IF reader.pc = "idle" THEN RowsOf(1..Len(rows)) ELSE @]
    IN  \/ /\ Cardinality(page) # pageLimit
           /\ reader' = [read EXCEPT !.pc = "ended"]
        \/ /\ Cardinality(page) = pageLimit
           /\ \E i \in page :
                 /\ \A j \in page : i <= j
                 /\ reader' = [read EXCEPT !.pc = "asks", !.before = Shown(rows[i].ts),
                                           !.edges = @ \cup {rows[i]}]

Latest ==
    /\ book.pages /\ reader.pc = "idle" /\ Page(Recent(Always, pageLimit))
    /\ UNCHANGED <<book, now, clockVars, handlerVars, rows, kept>>

Older ==
    /\ reader.pc = "asks" /\ Page(Recent(reader.before, pageLimit))
    /\ UNCHANGED <<book, now, clockVars, handlerVars, rows, kept>>

(* The service does not answer, which looks like the end of the history.   *)
NoAnswer ==
    /\ book.remote /\ reader.pc = "asks"
    /\ reader' = [reader EXCEPT !.pc = "ended", !.wanted = {}]
    /\ UNCHANGED <<book, now, clockVars, handlerVars, rows, kept>>

-----------------------------------------------------------------------------
HistoryNext ==
    \/ PassTime \/ Rename \/ ReadNick \/ handlePrivmsg
    \/ Latest \/ Older \/ NoAnswer
    \/ \E m \in Msg : Say(m)
    \/ \E x \in Sighting : Submitter(x) \/ FirstSight(x) \/ Submit(x)

-----------------------------------------------------------------------------
(* What is promised.                                                       *)

(* Two sightings are one to the store if they are of one name and text, and *)
(* come within the window.                                                 *)
Alike(x, y) == /\ key[x] = key[y]
               /\ stamp[x] - stamp[y] < storeDedupeWindow
               /\ stamp[y] - stamp[x] < storeDedupeWindow

(* What was sent and comes back is stored once, whoever is first and whatever is
   forgotten in between, unless our name has changed in between or the echo was
   late; and no sighting is dropped but for another of its name and text that
   came within the window (runtime.go:492-516).                            *)
StoredOnce ==
    /\ \A m \in book.said :
          {<<m, "sent">>, Echo(m)} \subseteq kept => ~Alike(<<m, "sent">>, Echo(m))
    /\ \A x \in Sighting :
          at[x] = "done" /\ x \notin kept =>
             \E y \in Sighting \ {x} :
                at[y] \in {"first", "done"} /\ key[y] = key[x]
                   /\ stamp[x] - stamp[y] < storeDedupeWindow

(* Rows of one time as it is shown; and rows stored in another order than that
   of their times.                                                         *)
Position(r) == CHOOSE i \in 1..Len(rows) : rows[i] = r
Blurred(r) == \E e \in reader.edges : Shown(e.ts) = Shown(r.ts)
Crossed(r) == \E i \in 1..Len(rows) : i > Position(r) /\ rows[i].ts < r.ts

(* Paging back shows all there was when it began and is still kept, but for rows
   that the coarse time of a page's oldest row covers, and those whose handlers
   overtook each other: neither the cap nor new rows make it skip or stop
   (messages.go:93-137, gateway.go:1031-1059).                             *)
PagesMissNothing ==
    reader.pc = "ended" =>
        \A i \in 1..Len(rows) :
           LET r == rows[i] IN
              r.of \in reader.wanted =>
                 r.of \in reader.shown \/ Blurred(r) \/ Crossed(r)

=============================================================================

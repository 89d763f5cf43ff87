----------------------------- MODULE IrcProofs -----------------------------
(***************************************************************************)
(* What is proved of the session and of its queries, for any number of     *)
(* channels and nicks, whatever others, users and the control plane do,    *)
(* however often the link breaks.                                          *)
(*                                                                         *)
(* The server is ahead of what the connector knows of it by the lines on   *)
(* the wire.  The invariant says that there is a world for each of them,   *)
(* what a session could know of the server when it wrote the line: the     *)
(* lines lead from one world to the next, the last is that of the server,  *)
(* and the connector has the first.                                        *)
(***************************************************************************)
EXTENDS IrcQueries, TLAPS, FiniteSetTheorems

World == [me : Nick \cup {NoNick}, members : [Chan -> SUBSET Nick],
          granted : [Chan -> SUBSET (Nick \X Letter)]]

In(w) == {c \in Chan : w.me \in w.members[c]}

-----------------------------------------------------------------------------
(* What each line makes of a world.                                        *)

SameChannel(w, v, c) == v.members[c] = w.members[c] /\ v.granted[c] = w.granted[c]
SameBut(w, v, c) == v.me = w.me /\ \A d \in Chan \ {c} : SameChannel(w, v, d)
Left(w, v, n, c) ==
    /\ v.members[c] = w.members[c] \ {n}
    /\ v.granted[c] = {g \in w.granted[c] : g[1] # n}

Faithful(c, listed, w) ==
    /\ listed \in [w.members[c] -> Prefix]
    /\ \A n \in w.members[c] :
          /\ listed[n] = "~" => <<n, "q">> \in w.granted[c]
          /\ listed[n] = "@" => <<n, "o">> \in w.granted[c]

Welcomes(w, line, v) ==
    \E n \in Nick : line = <<"001", n>> /\ w.me = NoNick /\ v.me = n /\ In(v) = {}

Joins(w, line, v) ==
    \E n \in Nick, c \in Chan :
       /\ line = <<"JOIN", n, c>> /\ SameBut(w, v, c)
       /\ \/ n = w.me /\ c \notin In(w) /\ c \in In(v)
          \/ /\ n # w.me /\ c \in In(w) /\ v.members[c] = w.members[c] \cup {n}
             /\ v.granted[c] = w.granted[c]

Parts(w, line, v) ==
    \E n \in Nick, c \in Chan :
       /\ line \in {<<"PART", n, c>>, <<"KICK", n, c>>}
       /\ c \in In(w) /\ n \in w.members[c] /\ SameBut(w, v, c)
       /\ IF n = w.me THEN v.members[c] = {} /\ v.granted[c] = {} ELSE Left(w, v, n, c)

Quits(w, line, v) ==
    \E n \in Nick :
       /\ line = <<"QUIT", n>> /\ n # w.me
       /\ v.me = w.me /\ \A c \in Chan : Left(w, v, n, c)

Renames(w, line, v) ==
    \E old, new \in Nick :
       /\ line = <<"NICK", old, new>> /\ old # new /\ new # w.me
       /\ \A c \in Chan : new \notin w.members[c]
       /\ v.me = IF old = w.me THEN new ELSE w.me
       /\ \A c \in Chan : /\ v.members[c] = Renamed(w.members[c], old, new)
                          /\ v.granted[c] = RenamedModes(w.granted[c], old, new)

Sets(w, line, v) ==
    \E adding \in BOOLEAN, letter \in Letter, n \in Nick, c \in Chan :
       /\ line = <<"MODE", adding, letter, n, c>>
       /\ c \in In(w) /\ n \in w.members[c] /\ SameBut(w, v, c) /\ v.members[c] = w.members[c]
       /\ v.granted[c] = IF adding THEN w.granted[c] \cup {<<n, letter>>}
                         ELSE w.granted[c] \ {<<n, letter>>}

Lists(w, line, v) ==
    \E c \in Chan, listed \in Listing :
       line = <<"353", c, listed>> /\ c \in In(w) /\ Faithful(c, listed, w) /\ v = w

Bars(w, line, v) == \E c \in Chan : line = <<"474", c>> /\ c \notin In(w) /\ v = w

Tells(w, line, v) ==
    /\ v = w
    /\ \/ line \in {<<"433">>, <<"451">>}
       \/ \E c \in Chan : line = <<"366", c>>
       \/ \E t \in Token : line = <<"PONG", t>>

Step(w, line, v) ==
    \/ Welcomes(w, line, v) \/ Joins(w, line, v) \/ Parts(w, line, v) \/ Quits(w, line, v)
    \/ Renames(w, line, v) \/ Sets(w, line, v) \/ Lists(w, line, v) \/ Bars(w, line, v)
    \/ Tells(w, line, v)

(* Our JOIN is followed by a burst of NAMES, and that by its end.          *)
Followed(w, lines, i) ==
    /\ \A c \in Chan : lines[i] = <<"JOIN", w.me, c>> =>
          /\ i + 1 \in 1..Len(lines)
          /\ lines[i + 1][1] = "353" /\ lines[i + 1][2] = c
    /\ lines[i][1] = "353" =>
          i + 1 \in 1..Len(lines) /\ lines[i + 1] = <<"366", lines[i][2]>>

(* Lines after which it is settled whether we are in c.                    *)
Decides(w, line, c) ==
    line \in {<<"JOIN", w.me, c>>, <<"PART", w.me, c>>, <<"KICK", w.me, c>>, <<"474", c>>}

Undecided(W, lines, i, c) == \A j \in i + 1..Len(lines) : ~Decides(W[j - 1], lines[j], c)

Chain(W, lines) ==
    /\ lines \in Seq(Said) /\ W \in [0..Len(lines) -> World]
    /\ \A i \in 1..Len(lines) : Step(W[i - 1], lines[i], W[i]) /\ Followed(W[i - 1], lines, i)
    /\ \A c \in Chan : \A i \in 0..Len(lines) :
          Undecided(W, lines, i, c) => (c \in In(W[i]) <=> c \in In(W[Len(lines)]))
    /\ \A i \in 0..Len(lines) : W[i].me \in Nick => W[Len(lines)].me \in Nick

-----------------------------------------------------------------------------
(* What the connector makes of them.                                       *)

(* All a session can know of the server: the channels it is in.            *)
Seen(S) == [c \in Chan |-> IF c \in Here THEN S[c] ELSE {}]
Now == [me |-> me, members |-> Seen(members), granted |-> Seen(granted)]

Pictured(c, w) == c \in joined /\ Faithful(c, names[c], w)

(* A channel we are in is known, or its NAMES are next, or their end.      *)
Agrees(c, w) ==
    \/ c \in complete /\ Pictured(c, w)
    \/ /\ wire # <<>> /\ wire[1][1] = "353" /\ wire[1][2] = c
       /\ c \in complete \/ names[c] = Nobody
    \/ wire # <<>> /\ wire[1] = <<"366", c>> /\ Pictured(c, w)

(* Nothing is left of a burst that was cut short.                          *)
Clean(c) ==
    \/ c \in complete \/ names[c] = Nobody \/ c \in cutShort
    \/ phase = "on" /\ wire # <<>> /\ wire[1] = <<"366", c>> /\ c \in joined

(* What is wanted of c is so, or has been asked for.                       *)
Fits(want, c) ==
    \/ want <=> c \in Here
    \/ want /\ \E i \in 1..Len(out) : out[i] = <<"JOIN", c>>
    \/ ~want /\ \E i \in 1..Len(out) : out[i] = <<"PART", c>>

(* What a client has yet to record is what will be wanted.                 *)
Meant(c) ==
    IF c \in client.channel THEN client.passed \/ Fits(client.command = "JOIN", c)
    ELSE Fits(c \in wanted, c)

ServerInv ==
    \A c \in Chan : /\ members[c] \subseteq others \cup {me}
                    /\ granted[c] \subseteq members[c] \X Letter

PlaceInv ==
    /\ phase \in {"down", "invalid"} <=> link = "none"
    /\ link = "none" => wire = <<>> /\ out = <<>>
    /\ link # "up" => me = NoNick
    /\ reconcile.registered => phase = "on"
    /\ client = Idle \/ (client.command # "none" /\ \E c \in Chan : client.channel = {c})
CleanInv == \A c \in Chan : Clean(c)

WireInv(W) ==
    /\ Chain(W, wire)
    /\ link = "up" => W[Len(wire)] = Now
    /\ phase = "registering" => W[0].me = NoNick
    /\ phase \in {"rejoined", "on"} => W[0].me = currentNick
    /\ phase = "rejoined" => In(W[0]) = {}
    /\ phase = "on" => \A c \in In(W[0]) \ cutShort : Agrees(c, W[0])
    /\ link = "up" /\ phase \in {"rejoined", "on"} =>
          \A c \in Chan \ adrift : Undecided(W, wire, 0, c) => Meant(c)

ViewInv == CleanInv /\ \E W : WireInv(W)

SessionInv == TypeOK /\ ServerInv /\ PlaceInv /\ ViewInv

-----------------------------------------------------------------------------
(* Lines and worlds.                                                       *)

(* The elements of a set, one after another.                               *)
LEMMA SetToSeqIsOnto ==
    ASSUME NEW S, IsFiniteSet(S)
    PROVE  /\ SetToSeq(S) \in Seq(S)
           /\ \A x \in S : \E i \in DOMAIN SetToSeq(S) : SetToSeq(S)[i] = x
<1> DEFINE D == 1..Cardinality(S)
<1>1. Cardinality(S) \in Nat /\ ExistsBijection(D, S)
  BY FS_CardinalityType
<1>2. \E f \in [D -> S] : IsInjective(f)
  BY <1>1 DEF ExistsBijection, Bijection, Injection
<1>3. SetToSeq(S) \in [D -> S] /\ IsInjective(SetToSeq(S))
  BY <1>2 DEF SetToSeq
<1>4. SetToSeq(S) \in Injection(D, S)
  BY <1>3 DEF Injection
<1>5. Cardinality(D) = Cardinality(S)
  <2>1. Cardinality(1..Cardinality(S)) =
           IF 1 > Cardinality(S) THEN 0 ELSE Cardinality(S) - 1 + 1
    BY <1>1, FS_Interval
  <2> QED BY <1>1, <2>1
<1>6. SetToSeq(S) \in Surjection(D, S)
  BY <1>4, <1>5, FS_Injection
<1>7. \A x \in S : \E i \in D : SetToSeq(S)[i] = x
  BY <1>6 DEF Surjection
<1> QED BY <1>1, <1>3, <1>7

(* What a line is says which step it is.                                   *)
LEMMA Kinds ==
    ASSUME NEW w, NEW line, NEW v, Step(w, line, v)
    PROVE  /\ line[1] = "001" => Welcomes(w, line, v)
           /\ line[1] = "JOIN" => Joins(w, line, v)
           /\ line[1] \in {"PART", "KICK"} => Parts(w, line, v)
           /\ line[1] = "QUIT" => Quits(w, line, v)
           /\ line[1] = "NICK" => Renames(w, line, v)
           /\ line[1] = "MODE" => Sets(w, line, v)
           /\ line[1] = "353" => Lists(w, line, v)
           /\ line[1] = "474" => Bars(w, line, v)
           /\ line[1] \in {"433", "451", "366", "PONG"} => Tells(w, line, v)
<1>1. CASE Welcomes(w, line, v)
  BY <1>1 DEF Welcomes
<1>2. CASE Joins(w, line, v)
  BY <1>2 DEF Joins
<1>3. CASE Parts(w, line, v)
  BY <1>3 DEF Parts
<1>4. CASE Quits(w, line, v)
  BY <1>4 DEF Quits
<1>5. CASE Renames(w, line, v)
  BY <1>5 DEF Renames
<1>6. CASE Sets(w, line, v)
  <2>1. PICK adding \in BOOLEAN, letter \in Letter, n \in Nick, c \in Chan :
           line = <<"MODE", adding, letter, n, c>>
    BY <1>6 DEF Sets
  <2>2. line[1] = "MODE"
    BY <2>1, Zenon
  <2> QED BY <1>6, <2>2
<1>7. CASE Lists(w, line, v)
  BY <1>7 DEF Lists
<1>8. CASE Bars(w, line, v)
  BY <1>8 DEF Bars
<1>9. CASE Tells(w, line, v)
  BY <1>9 DEF Tells
<1> QED BY <1>1, <1>2, <1>3, <1>4, <1>5, <1>6, <1>7, <1>8, <1>9 DEF Step

LEMMA Worlds ==
    ASSUME NEW w \in World
    PROVE  /\ w.me \in Nick \cup {NoNick}
           /\ \A c \in Chan : /\ w.members[c] \in SUBSET Nick
                              /\ w.granted[c] \in SUBSET (Nick \X Letter)
           /\ w.me = NoNick => In(w) = {}
BY NickAssumption DEF World, In

(* Only some lines bring us into a channel or out of it.                   *)
LEMMA OthersLeaveUsIn ==
    ASSUME NEW w \in World, NEW line, NEW v \in World, Step(w, line, v),
           NEW c \in Chan, ~Decides(w, line, c)
    PROVE  c \in In(w) <=> c \in In(v)
<1> USE Worlds
<1>1. CASE Welcomes(w, line, v)
  BY <1>1 DEF Welcomes
<1>2. CASE Joins(w, line, v)
  BY <1>2 DEF Joins, In, SameBut, SameChannel, Decides
<1>3. CASE Parts(w, line, v)
  BY <1>3 DEF Parts, In, SameBut, SameChannel, Left, Decides
<1>4. CASE Quits(w, line, v)
  BY <1>4 DEF Quits, In, Left
<1>5. CASE Renames(w, line, v)
  BY <1>5 DEF Renames, In, Renamed
<1>6. CASE Sets(w, line, v)
  BY <1>6 DEF Sets, In, SameBut, SameChannel
<1>7. CASE v = w
  BY <1>7
<1> QED BY <1>1, <1>2, <1>3, <1>4, <1>5, <1>6, <1>7 DEF Step, Lists, Bars, Tells

(* A welcome is for good.                                                  *)
LEMMA NicksLast ==
    ASSUME NEW w, NEW line, NEW v, Step(w, line, v), w.me \in Nick
    PROVE  v.me \in Nick
<1>1. CASE Welcomes(w, line, v)
  BY <1>1 DEF Welcomes
<1>2. CASE Joins(w, line, v)
  BY <1>2 DEF Joins, SameBut
<1>3. CASE Parts(w, line, v)
  BY <1>3 DEF Parts, SameBut
<1>4. CASE Quits(w, line, v)
  BY <1>4 DEF Quits
<1>5. CASE Renames(w, line, v)
  BY <1>5 DEF Renames
<1>6. CASE Sets(w, line, v)
  BY <1>6 DEF Sets, SameBut
<1>7. CASE v = w
  BY <1>7
<1> QED BY <1>1, <1>2, <1>3, <1>4, <1>5, <1>6, <1>7 DEF Step, Lists, Bars, Tells

LEMMA ChainOfNone ==
    ASSUME NEW w \in World
    PROVE  Chain([i \in 0..0 |-> w], <<>>)
BY DEF Chain

(* The first line is handled.                                              *)
LEMMA ChainTail ==
    ASSUME NEW W, NEW lines, Chain(W, lines), lines # <<>>
    PROVE  \E V : /\ Chain(V, Tail(lines)) /\ V[0] = W[1]
                  /\ V[Len(Tail(lines))] = W[Len(lines)]
                  /\ \A c \in Chan :
                        Undecided(V, Tail(lines), 0, c) <=> Undecided(W, lines, 1, c)
<1> DEFINE ls == Tail(lines)
           n == Len(lines)
           V == [i \in 0..n - 1 |-> W[i + 1]]
<1>1. /\ n \in Nat \ {0} /\ Len(ls) = n - 1 /\ ls \in Seq(Said)
      /\ \A i \in 1..n - 1 : ls[i] = lines[i + 1]
  BY DEF Chain
<1>2. V \in [0..n - 1 -> World] /\ \A i \in 0..n - 1 : V[i] = W[i + 1]
  BY <1>1 DEF Chain
<1>3. ASSUME NEW i \in 1..n - 1
      PROVE  Step(V[i - 1], ls[i], V[i]) /\ Followed(V[i - 1], ls, i)
  <2>1. /\ V[i - 1] = W[i] /\ V[i] = W[i + 1] /\ ls[i] = lines[i + 1]
        /\ i + 1 \in 1..n /\ (i + 1) - 1 = i
    BY <1>1, <1>2
  <2>2. Step(W[i], lines[i + 1], W[i + 1]) /\ Followed(W[i], lines, i + 1)
    BY <2>1 DEF Chain
  <2>3. i + 2 \in 1..n => i + 1 \in 1..n - 1 /\ ls[i + 1] = lines[i + 2]
    BY <1>1
  <2>4. (i + 1) + 1 = i + 2
    BY <1>1
  <2> QED BY <1>1, <2>1, <2>2, <2>3, <2>4 DEF Followed
<1>4. ASSUME NEW c \in Chan, NEW i \in 0..n - 1
      PROVE  Undecided(V, ls, i, c) <=> Undecided(W, lines, i + 1, c)
  <2>1. ASSUME NEW j \in i + 1..n - 1
        PROVE  /\ j + 1 \in i + 2..n
               /\ Decides(V[j - 1], ls[j], c) = Decides(W[j], lines[j + 1], c)
    BY <1>1, <1>2 DEF Decides
  <2>2. ASSUME NEW j \in i + 2..n
        PROVE  /\ j - 1 \in i + 1..n - 1
               /\ Decides(V[(j - 1) - 1], ls[j - 1], c) = Decides(W[j - 1], lines[j], c)
    <3>1. j - 1 \in i + 1..n - 1 /\ (j - 1) + 1 = j
      BY <1>1
    <3> QED BY <3>1, <2>1
  <2>3. (i + 1) + 1 = i + 2 /\ \A j \in i + 1..n - 1 : (j + 1) - 1 = j
    BY <1>1
  <2> QED BY <1>1, <2>1, <2>2, <2>3 DEF Undecided
<1>5. ASSUME NEW c \in Chan, NEW i \in 0..n - 1, Undecided(V, ls, i, c)
      PROVE  c \in In(V[i]) <=> c \in In(V[n - 1])
  <2>1. i + 1 \in 0..n /\ V[i] = W[i + 1] /\ V[n - 1] = W[n]
    BY <1>1, <1>2
  <2> QED BY <1>4, <1>5, <2>1 DEF Chain
<1>6. V[0] = W[1] /\ V[n - 1] = W[n] /\ 0 \in 0..n - 1 /\ 0 + 1 = 1
  BY <1>1, <1>2
<1>8. ASSUME NEW i \in 0..n - 1, V[i].me \in Nick PROVE V[n - 1].me \in Nick
  <2>1. i + 1 \in 0..n /\ V[i] = W[i + 1] /\ V[n - 1] = W[n]
    BY <1>1, <1>2
  <2> QED BY <1>8, <2>1 DEF Chain
<1>7. Chain(V, ls)
  BY <1>1, <1>2, <1>3, <1>5, <1>8 DEF Chain
<1> HIDE DEF V
<1> QED BY <1>1, <1>4, <1>6, <1>7

(* More lines are said.                                                    *)
LEMMA ChainAppend ==
    ASSUME NEW W, NEW ks, Chain(W, ks), NEW V, NEW ls, Chain(V, ls), V[0] = W[Len(ks)]
    PROVE  \E U : /\ Chain(U, ks \o ls) /\ U[0] = W[0] /\ U[Len(ks \o ls)] = V[Len(ls)]
                  /\ \A c \in Chan : Undecided(U, ks \o ls, 0, c) =>
                        Undecided(W, ks, 0, c) /\ Undecided(V, ls, 0, c)
<1> DEFINE m == Len(ks)
           n == Len(ls)
           all == ks \o ls
           U == [i \in 0..m + n |-> IF i <= m THEN W[i] ELSE V[i - m]]
<1>1. /\ m \in Nat /\ n \in Nat /\ all \in Seq(Said) /\ Len(all) = m + n
      /\ \A i \in 1..m : all[i] = ks[i]
      /\ \A i \in 1..n : all[m + i] = ls[i]
  BY DEF Chain
<1>2. /\ W \in [0..m -> World] /\ V \in [0..n -> World]
  BY DEF Chain
<1>3. /\ U \in [0..m + n -> World]
      /\ \A i \in 0..m : U[i] = W[i]
      /\ \A i \in 0..n : U[m + i] = V[i]
  <2>1. \A i \in 0..m + n : i <= m => i \in 0..m
    BY <1>1
  <2>2. \A i \in 0..m + n : ~(i <= m) => i - m \in 0..n
    BY <1>1
  <2>3. U \in [0..m + n -> World]
    BY <1>2, <2>1, <2>2
  <2>4. \A i \in 0..m : i \in 0..m + n /\ i <= m
    BY <1>1
  <2>5. ASSUME NEW i \in 0..n PROVE U[m + i] = V[i]
    <3>1. m + i \in 0..m + n /\ (m + i) - m = i
      BY <1>1
    <3>2. CASE i = 0
      BY <1>1, <3>1, <3>2
    <3>3. CASE i # 0
      BY <1>1, <3>1, <3>3
    <3> QED BY <3>2, <3>3
  <2> QED BY <2>3, <2>4, <2>5
<1>4. ASSUME NEW i \in 1..m + n
      PROVE  i \in 1..m \/ \E j \in 1..n : i = m + j
  <2>1. CASE i <= m
    BY <1>1, <2>1
  <2>2. CASE ~(i <= m)
    <3>1. i - m \in 1..n /\ i = m + (i - m)
      BY <1>1, <2>2
    <3> QED BY <3>1
  <2> QED BY <2>1, <2>2
<1>5. ASSUME NEW i \in 1..m
      PROVE  /\ i \in 1..m + n /\ all[i] = ks[i] /\ U[i] = W[i] /\ U[i - 1] = W[i - 1]
             /\ i + 1 \in 1..m => all[i + 1] = ks[i + 1] /\ i + 1 \in 1..m + n
  <2>1. i \in 0..m /\ i - 1 \in 0..m /\ i \in 1..m + n
    BY <1>1
  <2>2. i + 1 \in 1..m => i + 1 \in 1..m + n
    BY <1>1
  <2> QED BY <1>1, <1>3, <2>1, <2>2
<1>6. ASSUME NEW i \in 1..n
      PROVE  /\ m + i \in 1..m + n /\ all[m + i] = ls[i] /\ U[m + i] = V[i]
             /\ U[(m + i) - 1] = V[i - 1]
             /\ i + 1 \in 1..n => all[(m + i) + 1] = ls[i + 1] /\ (m + i) + 1 \in 1..m + n
  <2>1. i \in 0..n /\ i - 1 \in 0..n /\ m + i \in 1..m + n
    BY <1>1
  <2>2. (m + i) - 1 = m + (i - 1) /\ (m + i) + 1 = m + (i + 1)
    BY <1>1
  <2>3. i + 1 \in 1..n => m + (i + 1) \in 1..m + n
    BY <1>1
  <2> QED BY <1>1, <1>3, <2>1, <2>2, <2>3
<1>7. ASSUME NEW i \in 1..m + n
      PROVE  Step(U[i - 1], all[i], U[i]) /\ Followed(U[i - 1], all, i)
  <2>1. CASE i \in 1..m
    <3>1. Step(W[i - 1], ks[i], W[i]) /\ Followed(W[i - 1], ks, i)
      BY <2>1 DEF Chain
    <3> QED BY <1>1, <1>5, <2>1, <3>1 DEF Followed
  <2>2. ASSUME NEW j \in 1..n, i = m + j
        PROVE  Step(U[i - 1], all[i], U[i]) /\ Followed(U[i - 1], all, i)
    <3>1. Step(V[j - 1], ls[j], V[j]) /\ Followed(V[j - 1], ls, j)
      BY <2>2 DEF Chain
    <3> HIDE DEF U, all, m, n
    <3>2. Step(U[i - 1], all[i], U[i])
      BY <1>6, <2>2, <3>1
    <3>3. Followed(U[i - 1], all, i)
      <4>1. U[i - 1] = V[j - 1] /\ all[i] = ls[j] /\ Len(all) = m + n
        BY <1>1, <1>6, <2>2
      <4>2. j + 1 \in 1..n => all[i + 1] = ls[j + 1] /\ i + 1 \in 1..m + n
        BY <1>6, <2>2
      <4> QED BY <4>1, <4>2, <3>1 DEF Followed, n
    <3> QED BY <3>2, <3>3
  <2> QED BY <1>4, <2>1, <2>2
<1>8. ASSUME NEW c \in Chan, NEW i \in 0..m, Undecided(U, all, i, c)
      PROVE  Undecided(W, ks, i, c) /\ Undecided(V, ls, 0, c)
  <2>1. ASSUME NEW j \in i + 1..m PROVE ~Decides(W[j - 1], ks[j], c)
    <3>1. j \in 1..m /\ j \in i + 1..m + n
      BY <1>1
    <3> QED BY <1>1, <1>5, <1>8, <3>1 DEF Undecided
  <2>2. ASSUME NEW j \in 0 + 1..n PROVE ~Decides(V[j - 1], ls[j], c)
    <3>1. j \in 1..n /\ m + j \in i + 1..m + n
      BY <1>1
    <3>2. ~Decides(U[(m + j) - 1], all[m + j], c)
      BY <1>1, <1>8, <3>1 DEF Undecided
    <3> QED BY <1>6, <3>1, <3>2
  <2> QED BY <2>1, <2>2 DEF Undecided
<1>9. ASSUME NEW c \in Chan, NEW i \in 0..n, Undecided(U, all, m + i, c)
      PROVE  Undecided(V, ls, i, c)
  <2>1. ASSUME NEW j \in i + 1..n PROVE ~Decides(V[j - 1], ls[j], c)
    <3>1. j \in 1..n /\ m + j \in (m + i) + 1..m + n
      BY <1>1
    <3>2. ~Decides(U[(m + j) - 1], all[m + j], c)
      BY <1>1, <1>9, <3>1 DEF Undecided
    <3> QED BY <1>6, <3>1, <3>2
  <2> QED BY <2>1 DEF Undecided
<1>10. U[m + n] = V[n] /\ U[0] = W[0] /\ U[m] = W[m] /\ 0 \in 0..m /\ m \in 0..m /\ n \in 0..n
       /\ 0 \in 0..n
  BY <1>1, <1>3
<1>11. ASSUME NEW c \in Chan, NEW i \in 0..m + n, Undecided(U, all, i, c)
       PROVE  c \in In(U[i]) <=> c \in In(U[m + n])
  <2>1. CASE i \in 0..m
    <3>1. Undecided(W, ks, i, c) /\ Undecided(V, ls, 0, c)
      BY <1>8, <1>11, <2>1
    <3>2. c \in In(W[i]) <=> c \in In(W[m])
      BY <2>1, <3>1 DEF Chain
    <3>3. c \in In(V[0]) <=> c \in In(V[n])
      BY <1>10, <3>1 DEF Chain
    <3> QED BY <1>3, <1>10, <2>1, <3>2, <3>3
  <2>2. CASE i \notin 0..m
    <3>1. PICK j \in 0..n : i = m + j
      <4>1. i - m \in 0..n /\ i = m + (i - m)
        BY <1>1, <2>2
      <4> QED BY <4>1
    <3>2. Undecided(V, ls, j, c)
      BY <1>9, <1>11, <3>1
    <3>3. c \in In(V[j]) <=> c \in In(V[n])
      BY <3>2 DEF Chain
    <3> QED BY <1>3, <1>10, <3>1, <3>3
  <2> QED BY <2>1, <2>2
<1>13. ASSUME NEW i \in 0..m + n, U[i].me \in Nick PROVE U[m + n].me \in Nick
  <2>0. /\ W[m].me \in Nick => V[n].me \in Nick
        /\ \A k \in 0..n : V[k].me \in Nick => V[n].me \in Nick
    BY <1>10 DEF Chain
  <2>1. CASE i \in 0..m
    <3>1. W[i].me \in Nick => W[m].me \in Nick
      BY <2>1 DEF Chain
    <3> QED BY <1>3, <1>10, <1>13, <2>0, <2>1, <3>1
  <2>2. CASE i \notin 0..m
    <3>1. PICK j \in 0..n : i = m + j
      <4>1. i - m \in 0..n /\ i = m + (i - m)
        BY <1>1, <2>2
      <4> QED BY <4>1
    <3> QED BY <1>3, <1>10, <1>13, <2>0, <3>1
  <2> QED BY <2>1, <2>2
<1>12. Chain(U, all)
  BY <1>1, <1>3, <1>7, <1>11, <1>13 DEF Chain
<1> HIDE DEF U
<1> QED BY <1>1, <1>8, <1>10, <1>12

(* One line.                                                               *)
LEMMA ChainOfOne ==
    ASSUME NEW w \in World, NEW v \in World, NEW line \in Said, Step(w, line, v),
           line[1] # "353", \A c \in Chan : line # <<"JOIN", w.me, c>>
    PROVE  \E V : /\ Chain(V, <<line>>) /\ V[0] = w /\ V[Len(<<line>>)] = v
                  /\ \A c \in Chan : Undecided(V, <<line>>, 0, c) <=> ~Decides(w, line, c)
<1> DEFINE V == [i \in 0..1 |-> IF i = 0 THEN w ELSE v]
           ls == <<line>>
<1>1. ls \in Seq(Said) /\ Len(ls) = 1 /\ ls[1] = line /\ V \in [0..1 -> World]
  OBVIOUS
<1>2. V[0] = w /\ V[1] = v /\ 0..1 = {0, 1} /\ 1..1 = {1} /\ 1 - 1 = 0 /\ 0 + 1 = 1
  OBVIOUS
<1>3. Followed(w, ls, 1)
  BY <1>1 DEF Followed
<1> HIDE DEF V, ls
<1>4. \A c \in Chan : Undecided(V, ls, 0, c) <=> ~Decides(w, line, c)
  BY <1>1, <1>2 DEF Undecided
<1>5. ASSUME NEW c \in Chan, NEW i \in 0..1, Undecided(V, ls, i, c)
      PROVE  c \in In(V[i]) <=> c \in In(V[1])
  <2>1. CASE i = 0
    BY <1>2, <1>4, <1>5, <2>1, OthersLeaveUsIn
  <2>2. CASE i = 1
    BY <2>2
  <2> QED BY <1>2, <2>1, <2>2
<1>8. \A i \in 0..1 : V[i].me \in Nick => V[1].me \in Nick
  BY <1>2, NicksLast
<1>6. Chain(V, ls)
  BY <1>1, <1>2, <1>3, <1>5, <1>8 DEF Chain
<1>7. V[Len(ls)] = v
  BY <1>1, <1>2
<1> QED BY <1>2, <1>4, <1>6, <1>7 DEF ls

(* Our JOIN with its burst.                                                *)
LEMMA ChainOfBurst ==
    ASSUME NEW w \in World, NEW v \in World, NEW c \in Chan, NEW listed \in Listing,
           w.me \in Nick, Joins(w, <<"JOIN", w.me, c>>, v), Faithful(c, listed, v)
    PROVE  LET ls == <<<<"JOIN", w.me, c>>, <<"353", c, listed>>, <<"366", c>>>> IN
           /\ ls \in Seq(Said)
           /\ \E V : /\ Chain(V, ls) /\ V[0] = w /\ V[Len(ls)] = v
                     /\ ~Undecided(V, ls, 0, c)
                     /\ \A d \in Chan \ {c} : Undecided(V, ls, 0, d)
<1> DEFINE V == [i \in 0..3 |-> IF i = 0 THEN w ELSE v]
           first == <<"JOIN", w.me, c>>
           second == <<"353", c, listed>>
           third == <<"366", c>>
           ls == <<first, second, third>>
<1>1. first \in Said /\ second \in Said /\ third \in Said
  BY DEF Said
<1>2. /\ first[1] = "JOIN" /\ second[1] = "353" /\ second[2] = c /\ third[1] = "366"
      /\ third = <<"366", second[2]>>
  OBVIOUS
<1>3. c \in In(v) /\ v.me = w.me
  BY DEF Joins, SameBut
<1>4. Step(w, first, v)
  BY DEF Step
<1>5. Step(v, second, v)
  BY <1>3 DEF Step, Lists
<1>6. Step(v, third, v)
  BY DEF Step, Tells
<1>7. \A d \in Chan : second # <<"JOIN", v.me, d>> /\ third # <<"JOIN", v.me, d>>
  BY <1>2
<1>8. \A d \in Chan : first = <<"JOIN", w.me, d>> => d = c
  OBVIOUS
<1>9. \A d \in Chan : ~Decides(v, second, d) /\ ~Decides(v, third, d)
  BY <1>2 DEF Decides
<1>10. Decides(w, first, c)
  BY DEF Decides
<1> HIDE DEF first, second, third
<1>11. /\ ls \in Seq(Said) /\ Len(ls) = 3 /\ ls[1] = first /\ ls[2] = second /\ ls[3] = third
       /\ V \in [0..3 -> World]
  BY <1>1
<1>12. /\ V[0] = w /\ V[1] = v /\ V[2] = v /\ V[3] = v
       /\ 0..3 = {0, 1, 2, 3} /\ 1..3 = {1, 2, 3}
       /\ 1 - 1 = 0 /\ 2 - 1 = 1 /\ 3 - 1 = 2 /\ 0 + 1 = 1 /\ 1 + 1 = 2 /\ 2 + 1 = 3
  OBVIOUS
<1> HIDE DEF V, ls
<1>13. Followed(V[0], ls, 1)
  BY <1>2, <1>8, <1>11, <1>12 DEF Followed
<1>14. Followed(V[1], ls, 2)
  BY <1>2, <1>7, <1>11, <1>12 DEF Followed
<1>15. Followed(V[2], ls, 3)
  BY <1>2, <1>7, <1>11, <1>12 DEF Followed
<1>16. ASSUME NEW i \in 1..3
       PROVE  Step(V[i - 1], ls[i], V[i]) /\ Followed(V[i - 1], ls, i)
  BY <1>4, <1>5, <1>6, <1>11, <1>12, <1>13, <1>14, <1>15
<1>17. ASSUME NEW d \in Chan, NEW i \in 0..3, Undecided(V, ls, i, d)
       PROVE  d \in In(V[i]) <=> d \in In(V[3])
  <2>1. CASE i = 0
    <3>1. ~Decides(w, first, d)
      BY <1>11, <1>12, <1>17, <2>1 DEF Undecided
    <3> QED BY <1>4, <1>12, <2>1, <3>1, OthersLeaveUsIn
  <2>2. CASE i # 0
    BY <1>12, <2>2
  <2> QED BY <2>1, <2>2
<1>22. \A i \in 0..3 : V[i].me \in Nick => V[3].me \in Nick
  BY <1>3, <1>12
<1>18. Chain(V, ls)
  BY <1>11, <1>12, <1>16, <1>17, <1>22 DEF Chain
<1>19. ~Undecided(V, ls, 0, c)
  BY <1>10, <1>11, <1>12 DEF Undecided
<1>20. ASSUME NEW d \in Chan \ {c} PROVE Undecided(V, ls, 0, d)
  <2>1. ~Decides(w, first, d)
    BY <1>8, <1>2 DEF Decides
  <2> QED BY <1>9, <1>11, <1>12, <2>1 DEF Undecided
<1>21. V[Len(ls)] = v
  BY <1>11, <1>12
<1> QED BY <1>11, <1>12, <1>18, <1>19, <1>20, <1>21 DEF ls, first, second, third

-----------------------------------------------------------------------------
(* The world of the server.                                                *)

LEMMA NowFacts ==
    ASSUME TypeOK
    PROVE  /\ Now \in World /\ Now.me = me /\ In(Now) = Here /\ NoNick \notin Nick
           /\ \A c \in Chan : /\ Now.members[c] = IF c \in Here THEN members[c] ELSE {}
                              /\ Now.granted[c] = IF c \in Here THEN granted[c] ELSE {}
<1>1. Seen(members) \in [Chan -> SUBSET Nick] /\ Seen(granted) \in [Chan -> SUBSET (Nick \X Letter)]
  BY DEF TypeOK, Seen
<1>2. Now \in World
  BY <1>1 DEF TypeOK, World, Now
<1>3. /\ Now.me = me
      /\ \A c \in Chan : /\ Now.members[c] = IF c \in Here THEN members[c] ELSE {}
                         /\ Now.granted[c] = IF c \in Here THEN granted[c] ELSE {}
  BY DEF Now, Seen
<1>4. In(Now) = Here
  BY <1>3 DEF In, Here
<1> QED BY <1>2, <1>3, <1>4, NickAssumption

LEMMA NowFactsNext ==
    ASSUME TypeOK'
    PROVE  /\ Now' \in World /\ Now.me' = me' /\ In(Now)' = Here'
           /\ \A c \in Chan : /\ Now.members[c]' = IF c \in Here' THEN members'[c] ELSE {}
                              /\ Now.granted[c]' = IF c \in Here' THEN granted'[c] ELSE {}
<1>1. /\ Seen(members)' \in [Chan -> SUBSET Nick]
      /\ Seen(granted)' \in [Chan -> SUBSET (Nick \X Letter)]
  BY DEF TypeOK, Seen
<1>2. Now' \in World
  BY <1>1 DEF TypeOK, World, Now
<1>3. /\ Now.me' = me'
      /\ \A c \in Chan : /\ Now.members[c]' = IF c \in Here' THEN members'[c] ELSE {}
                         /\ Now.granted[c]' = IF c \in Here' THEN granted'[c] ELSE {}
  BY DEF Now, Seen
<1>4. In(Now)' = Here'
  BY <1>3 DEF In, Here
<1> QED BY <1>2, <1>3, <1>4

(* What the server does elsewhere cannot be told from nothing.             *)
LEMMA NowSame ==
    ASSUME me' = me,
           \A c \in Chan : \/ me \notin members[c] /\ me \notin members'[c]
                           \/ members'[c] = members[c] /\ granted'[c] = granted[c]
    PROVE  Now' = Now /\ Here' = Here
<1>1. Here' = Here
  BY DEF Here
<1>2. Seen(members)' = Seen(members) /\ Seen(granted)' = Seen(granted)
  BY <1>1 DEF Seen, Here
<1> QED BY <1>1, <1>2 DEF Now

-----------------------------------------------------------------------------
(* The invariant of the wire, when lines are said, and when none is.       *)

Untouched == UNCHANGED <<phase, currentNick, viewVars, adrift, client, wanted>>

LEMMA WireInvNext ==
    ASSUME NEW W, Chain(W, wire'),
           link' = "up" => W[Len(wire')] = Now',
           phase' = "registering" => W[0].me = NoNick,
           phase' \in {"rejoined", "on"} => W[0].me = currentNick',
           phase' = "rejoined" => In(W[0]) = {},
           phase' = "on" => \A c \in In(W[0]) \ cutShort' : Agrees(c, W[0])',
           link' = "up" /\ phase' \in {"rejoined", "on"} =>
              \A c \in Chan \ adrift' : Undecided(W, wire', 0, c) => Meant(c)'
    PROVE  WireInv(W)'
<1>1. Chain(W, wire)' /\ \A c \in Chan : Undecided(W, wire, 0, c)' <=> Undecided(W, wire', 0, c)
  BY DEF Chain, Undecided
<1> QED BY <1>1 DEF WireInv

LEMMA Say ==
    ASSUME NEW W, WireInv(W), link = "up", link' = "up", Untouched,
           NEW V, NEW ls, Chain(V, ls), V[0] = Now, V[Len(ls)] = Now', wire' = wire \o ls,
           phase \in {"rejoined", "on"} => \A c \in Chan : Undecided(V, ls, 0, c) =>
              \A want \in BOOLEAN : Fits(want, c) => Fits(want, c)'
    PROVE  \E U : WireInv(U)'
<1>1. Chain(W, wire) /\ W[Len(wire)] = Now /\ V[0] = W[Len(wire)]
  BY DEF WireInv
<1>a. \E U : /\ Chain(U, wire \o ls) /\ U[0] = W[0] /\ U[Len(wire \o ls)] = V[Len(ls)]
             /\ \A c \in Chan : Undecided(U, wire \o ls, 0, c) =>
                     Undecided(W, wire, 0, c) /\ Undecided(V, ls, 0, c)
  <2>1. Chain(W, wire) /\ Chain(V, ls) /\ V[0] = W[Len(wire)]
    BY <1>1
  <2> QED BY ONLY <2>1, ChainAppend
<1>2. PICK U : /\ Chain(U, wire \o ls) /\ U[0] = W[0] /\ U[Len(wire \o ls)] = V[Len(ls)]
               /\ \A c \in Chan : Undecided(U, wire \o ls, 0, c) =>
                     Undecided(W, wire, 0, c) /\ Undecided(V, ls, 0, c)
  BY <1>a
<1>3. wire # <<>> => wire' # <<>> /\ wire'[1] = wire[1]
  BY <1>1 DEF Chain
<1>4. ASSUME NEW c \in Chan, Agrees(c, W[0]) PROVE Agrees(c, U[0])'
  BY <1>2, <1>3, <1>4 DEF Agrees, Pictured, Untouched, viewVars
<1>5. ASSUME phase \in {"rejoined", "on"}, NEW c \in Chan, Undecided(V, ls, 0, c), Meant(c)
      PROVE  Meant(c)'
  <2>1. (client.command = "JOIN") \in BOOLEAN /\ (c \in wanted) \in BOOLEAN
    OBVIOUS
  <2> QED BY <1>5, <2>1 DEF Meant, Untouched
<1>6. phase = "on" => \A c \in In(U[0]) \ cutShort : Agrees(c, U[0])'
  <2>1. U[0] = W[0] /\ In(U[0]) \subseteq Chan
    BY <1>2 DEF In
  <2>2. phase = "on" => \A c \in In(U[0]) \ cutShort : Agrees(c, W[0])
    BY <2>1 DEF WireInv
  <2> QED BY <1>4, <2>1, <2>2
<1>7. phase \in {"rejoined", "on"} =>
         \A c \in Chan \ adrift : Undecided(U, wire', 0, c) => Meant(c)'
  BY <1>2, <1>5 DEF WireInv
<1>8. /\ phase = "registering" => U[0].me = NoNick
      /\ phase \in {"rejoined", "on"} => U[0].me = currentNick
      /\ phase = "rejoined" => In(U[0]) = {}
  BY <1>2 DEF WireInv
<1>9. UNCHANGED <<phase, currentNick, cutShort, adrift>>
  BY DEF Untouched, viewVars
<1>10. Chain(U, wire') /\ U[Len(wire')] = Now'
  BY <1>2
<1>11. WireInv(U)'
  BY <1>6, <1>7, <1>8, <1>9, <1>10, WireInvNext
<1> QED BY <1>11

LEMMA SayNothing ==
    ASSUME NEW W, WireInv(W), wire' = wire, UNCHANGED <<phase, currentNick, viewVars>>,
           link' = "up" => link = "up" /\ Now' = Now,
           link' = "up" /\ phase \in {"rejoined", "on"} =>
              \A c \in Chan \ adrift' :
                 Undecided(W, wire, 0, c) /\ (c \notin adrift => Meant(c)) => Meant(c)'
    PROVE  WireInv(W)'
<1>1. ASSUME NEW c \in Chan, Agrees(c, W[0]) PROVE Agrees(c, W[0])'
  BY <1>1 DEF Agrees, Pictured, viewVars
<1>2. ASSUME link' = "up", phase' \in {"rejoined", "on"}, NEW c \in Chan \ adrift',
             Undecided(W, wire', 0, c)
      PROVE  Meant(c)'
  BY <1>2 DEF WireInv
<1>3. phase' = "on" => \A c \in In(W[0]) \ cutShort' : Agrees(c, W[0])'
  BY <1>1 DEF WireInv, viewVars, In
<1>4. Chain(W, wire')
  BY DEF WireInv
<1>5. /\ link' = "up" => W[Len(wire')] = Now'
      /\ phase' = "registering" => W[0].me = NoNick
      /\ phase' \in {"rejoined", "on"} => W[0].me = currentNick'
      /\ phase' = "rejoined" => In(W[0]) = {}
  BY DEF WireInv
<1> QED BY <1>2, <1>3, <1>4, <1>5, WireInvNext

(* More commands on their way leave what was asked for asked for.          *)
LEMMA AsksMore ==
    ASSUME out \in Seq(Commands), NEW more \in Seq(Commands), out' = out \o more, Here' = Here,
           NEW c \in Chan, NEW want \in BOOLEAN, Fits(want, c)
    PROVE  Fits(want, c)'
<1>1. \A i \in 1..Len(out) : i \in 1..Len(out') /\ out'[i] = out[i]
  OBVIOUS
<1> QED BY <1>1 DEF Fits

LEMMA AsksTheSame ==
    ASSUME out' = out, Here' = Here, NEW c \in Chan, NEW want \in BOOLEAN, Fits(want, c)
    PROVE  Fits(want, c)'
BY DEF Fits

LEMMA CleanStays ==
    ASSUME NEW ls, TypeOK, CleanInv, UNCHANGED <<phase, viewVars>>,
           wire' = wire \/ (ls \in Seq(Said) /\ wire' = wire \o ls)
    PROVE  CleanInv'
<1>1. wire # <<>> => wire' # <<>> /\ wire'[1] = wire[1]
  BY DEF TypeOK
<1> QED BY <1>1 DEF CleanInv, Clean, viewVars

(* What is told to a session, and what is not.                             *)
LEMMA Says ==
    ASSUME TypeOK, ViewInv, link = "up", link' = "up", Untouched,
           NEW V, NEW ls, Chain(V, ls), V[0] = Now, V[Len(ls)] = Now', wire' = wire \o ls,
           phase \in {"rejoined", "on"} => \A c \in Chan : Undecided(V, ls, 0, c) =>
              \A want \in BOOLEAN : Fits(want, c) => Fits(want, c)'
    PROVE  ViewInv'
<1>1. \E U : WireInv(U)'
  <2>1. PICK W : WireInv(W)
    BY DEF ViewInv
  <2> QED BY <2>1, Say
<1>2. ls \in Seq(Said) /\ CleanInv /\ UNCHANGED <<phase, viewVars>>
  BY DEF Chain, ViewInv, Untouched
<1>3. CleanInv'
  BY <1>2, CleanStays
<1> QED BY <1>1, <1>3 DEF ViewInv

LEMMA SaysOne ==
    ASSUME TypeOK, TypeOK', ViewInv, link = "up", link' = "up", Untouched,
           NEW line \in Said, wire' = Heard(<<line>>), Step(Now, line, Now'),
           line[1] # "353", \A c \in Chan : line # <<"JOIN", me, c>>,
           phase \in {"rejoined", "on"} => \A c \in Chan : ~Decides(Now, line, c) =>
              \A want \in BOOLEAN : Fits(want, c) => Fits(want, c)'
    PROVE  ViewInv'
<1>1. Now \in World /\ Now' \in World /\ Now.me = me
  BY NowFacts, NowFactsNext
<1>2. PICK V : /\ Chain(V, <<line>>) /\ V[0] = Now /\ V[Len(<<line>>)] = Now'
               /\ \A c \in Chan : Undecided(V, <<line>>, 0, c) <=> ~Decides(Now, line, c)
  BY <1>1, ChainOfOne
<1>3. wire' = wire \o <<line>>
  BY DEF Heard
<1> QED BY <1>2, <1>3, Says

LEMMA SaysNothing ==
    ASSUME TypeOK, ViewInv, wire' = wire, Untouched, link' = "up" => link = "up" /\ Now' = Now,
           link' = "up" /\ phase \in {"rejoined", "on"} => \A c \in Chan :
              \A want \in BOOLEAN : Fits(want, c) => Fits(want, c)'
    PROVE  ViewInv'
<1>1. PICK W : WireInv(W)
  BY DEF ViewInv
<1>2. UNCHANGED <<phase, currentNick, viewVars, adrift>>
  BY DEF Untouched
<1>3. ASSUME link' = "up", phase \in {"rejoined", "on"}, NEW c \in Chan, Meant(c) PROVE Meant(c)'
  <2>1. (client.command = "JOIN") \in BOOLEAN /\ (c \in wanted) \in BOOLEAN
    OBVIOUS
  <2> QED BY <1>3, <2>1 DEF Meant, Untouched
<1>4. WireInv(W)'
  BY <1>1, <1>2, <1>3, SayNothing
<1>5. CleanInv'
  BY <1>2, CleanStays DEF ViewInv
<1> QED BY <1>4, <1>5 DEF ViewInv

(* In a session we have a nick.                                            *)
LEMMA SessionsHaveNicks ==
    ASSUME TypeOK, ViewInv, link = "up", phase \in {"rejoined", "on"}
    PROVE  me \in Nick
<1>1. PICK W : WireInv(W)
  BY DEF ViewInv
<1>2. Chain(W, wire) /\ W[Len(wire)] = Now /\ W[0].me = currentNick
  BY <1>1 DEF WireInv
<1>3. 0 \in 0..Len(wire) /\ currentNick \in Nick /\ Now.me = me
  BY NowFacts DEF TypeOK
<1> QED BY <1>2, <1>3 DEF Chain

(* The server takes a command.                                             *)
LEMMA AsksOn ==
    ASSUME TypeOK, out # <<>>, out' = Tail(out), NEW c \in Chan, NEW want \in BOOLEAN,
           Fits(want, c), c \in Here' <=> c \in Here,
           out[1] = <<"JOIN", c>> => c \in Here, out[1] = <<"PART", c>> => c \notin Here
    PROVE  Fits(want, c)'
<1>1. ASSUME NEW i \in 1..Len(out), i # 1
      PROVE  i - 1 \in 1..Len(out') /\ out'[i - 1] = out[i]
  <2>1. out \in Seq(Commands) /\ Len(out') = Len(out) - 1
    BY DEF TypeOK
  <2>2. i - 1 \in 1..Len(out') /\ (i - 1) + 1 = i
    BY <1>1, <2>1
  <2> QED BY <2>1, <2>2
<1>2. (\E i \in 1..Len(out) : out[i] = <<"JOIN", c>>) =>
         out[1] = <<"JOIN", c>> \/ \E i \in 1..Len(out') : out'[i] = <<"JOIN", c>>
  BY <1>1
<1>3. (\E i \in 1..Len(out) : out[i] = <<"PART", c>>) =>
         out[1] = <<"PART", c>> \/ \E i \in 1..Len(out') : out'[i] = <<"PART", c>>
  BY <1>1
<1> QED BY <1>2, <1>3 DEF Fits
-----------------------------------------------------------------------------
(* Types.                                                                  *)

LEMMA LinesSaid ==
    /\ <<"433">> \in Said /\ <<"451">> \in Said
    /\ \A n \in Nick : <<"001", n>> \in Said /\ <<"QUIT", n>> \in Said
    /\ \A c \in Chan : <<"366", c>> \in Said /\ <<"474", c>> \in Said
    /\ \A t \in Token : <<"PONG", t>> \in Said
    /\ \A c \in Chan, listed \in Listing : <<"353", c, listed>> \in Said
    /\ \A n \in Nick, c \in Chan : /\ <<"JOIN", n, c>> \in Said /\ <<"PART", n, c>> \in Said
                                   /\ <<"KICK", n, c>> \in Said
    /\ \A n, m \in Nick : <<"NICK", n, m>> \in Said
    /\ \A b \in BOOLEAN, l \in Letter, n \in Nick, c \in Chan : <<"MODE", b, l, n, c>> \in Said
BY DEF Said

LEMMA CommandsAre ==
    /\ \A c \in Chan : <<"JOIN", c>> \in Commands /\ <<"PART", c>> \in Commands
    /\ \A n \in Nick : <<"NICK", n>> \in Commands
    /\ \A t \in Token : <<"PING", t>> \in Commands
BY DEF Commands

LEMMA Taken ==
    ASSUME TypeOK, out # <<>>
    PROVE  /\ Tail(out) \in Seq(Commands)
           /\ out[1][1] \in {"JOIN", "PART"} => out[1][2] \in Chan
           /\ out[1][1] = "NICK" => out[1][2] \in Nick
           /\ out[1][1] = "PING" => out[1][2] \in Token
           /\ out[1] = <<out[1][1], out[1][2]>>
<1>1. out[1] \in Commands /\ Tail(out) \in Seq(Commands)
  BY DEF TypeOK
<1> QED BY <1>1 DEF Commands

LEMMA HeardTypes ==
    ASSUME TypeOK, NEW lines \in Seq(Said), wire' = Heard(lines)
    PROVE  wire' \in Seq(Said)
BY DEF TypeOK, Heard

LEMMA HeardOne ==
    ASSUME TypeOK, NEW line \in Said, wire' = Heard(<<line>>)
    PROVE  wire' \in Seq(Said)
<1>1. <<line>> \in Seq(Said)
  OBVIOUS
<1> QED BY <1>1, HeardTypes

LEMMA SentTypes ==
    ASSUME TypeOK, NEW commands \in Seq(Commands), out' = Sent(commands)
    PROVE  out' \in Seq(Commands)
BY DEF TypeOK, Sent

LEMMA ServerTypes ==
    ASSUME TypeOK, left' \in [{"cuts", "commands", "events"} -> Nat],
           UNCHANGED <<bounds, link, phase, nickVars, reclaim, viewVars, wanted, pingVars,
                       clientVars, adrift>>,
           out' \in Seq(Commands), wire' \in Seq(Said),
           me' \in Nick \cup {NoNick}, others' \subseteq Nick, me' \notin others',
           members' \in [Chan -> SUBSET Nick], granted' \in [Chan -> SUBSET (Nick \X Letter)]
    PROVE  TypeOK'
BY DEF TypeOK, nickVars, viewVars, pingVars, clientVars

LEMMA RenameTypes ==
    ASSUME TypeOK, NEW old \in Nick \cup {NoNick}, NEW new \in Nick, Rename(old, new)
    PROVE  members' \in [Chan -> SUBSET Nick] /\ granted' \in [Chan -> SUBSET (Nick \X Letter)]
BY DEF TypeOK, Rename, Renamed, RenamedModes

LEMMA LeaveTypes ==
    ASSUME TypeOK, NEW n, NEW cs, Leave(n, cs)
    PROVE  members' \in [Chan -> SUBSET Nick] /\ granted' \in [Chan -> SUBSET (Nick \X Letter)]
BY DEF TypeOK, Leave

LEMMA ShownTypes ==
    ASSUME NEW c \in Chan, NEW S \in SUBSET Nick
    PROVE  [n \in S |-> Shown(c, n)] \in Listing
<1>1. \A n \in S : Shown(c, n) \in Prefix
  BY DEF Shown, Prefix
<1> QED BY <1>1 DEF Listing

LEMMA ServerKeepsTypes == ASSUME TypeOK, Server PROVE TypeOK'
<1>1. ASSUME TakesNick PROVE TypeOK'
  <2> DEFINE new == out[1][2]
  <2>1. /\ out # <<>> /\ out[1][1] = "NICK" /\ out' = Tail(out)
        /\ UNCHANGED <<bounds, left, link, phase, nickVars, reclaim, viewVars, wanted, pingVars,
                       clientVars, adrift>>
    BY <1>1 DEF TakesNick, Takes
  <2>2. new \in Nick /\ out' \in Seq(Commands)
    BY <2>1, Taken
  <2>3. left' \in [{"cuts", "commands", "events"} -> Nat] /\ me \in Nick \cup {NoNick}
    BY <2>1 DEF TypeOK
  <2>4. CASE new \in others /\ wire' = Heard(<<<<"433">>>>) /\ UNCHANGED serverVars
    <3>1. <<"433">> \in Said
      BY LinesSaid
    <3>2. wire' \in Seq(Said)
      BY <2>4, <3>1, HeardOne
    <3> QED BY <2>1, <2>2, <2>3, <2>4, <3>2, ServerTypes DEF TypeOK, serverVars
  <2>5. CASE /\ new \notin others /\ me' = new /\ wire' = Heard(<<<<"001", new>>>>)
             /\ UNCHANGED <<others, members, granted>>
    <3>1. <<"001", new>> \in Said
      BY <2>2, LinesSaid
    <3>2. wire' \in Seq(Said)
      BY <2>5, <3>1, HeardOne
    <3> QED BY <2>1, <2>2, <2>3, <2>5, <3>2, ServerTypes DEF TypeOK
  <2>6. CASE /\ new \notin others /\ me # NoNick
             /\ me' = new /\ Rename(me, new)
             /\ wire' = Heard(IF new = me THEN <<>> ELSE <<<<"NICK", me, new>>>>)
             /\ UNCHANGED others
    <3>1. (IF new = me THEN <<>> ELSE <<<<"NICK", me, new>>>>) \in Seq(Said)
      BY <2>2, <2>3, <2>6, LinesSaid
    <3>2. wire' \in Seq(Said)
      BY <2>6, <3>1, HeardTypes
    <3>3. members' \in [Chan -> SUBSET Nick] /\ granted' \in [Chan -> SUBSET (Nick \X Letter)]
      BY <2>2, <2>3, <2>6, RenameTypes
    <3> QED BY <2>1, <2>2, <2>3, <2>6, <3>2, <3>3, ServerTypes DEF TypeOK
  <2> QED BY <1>1, <2>4, <2>5, <2>6 DEF TakesNick
<1>2. ASSUME TakesJoin PROVE TypeOK'
  <2> DEFINE c == out[1][2]
  <2>1. /\ out # <<>> /\ out[1][1] = "JOIN" /\ out' = Tail(out)
        /\ UNCHANGED <<bounds, left, link, phase, nickVars, reclaim, viewVars, wanted, pingVars,
                       clientVars, adrift>>
    BY <1>2 DEF TakesJoin, Takes
  <2>2. c \in Chan /\ out' \in Seq(Commands)
    BY <2>1, Taken
  <2>3. left' \in [{"cuts", "commands", "events"} -> Nat] /\ me \in Nick \cup {NoNick}
    BY <2>1 DEF TypeOK
  <2>4. CASE /\ wire' \in {Heard(<<<<"451">>>>), Heard(<<<<"474", c>>>>), wire}
             /\ UNCHANGED serverVars
    <3>1. <<"451">> \in Said /\ <<"474", c>> \in Said /\ wire \in Seq(Said)
      BY <2>2, LinesSaid DEF TypeOK
    <3>2. wire' \in Seq(Said)
      BY <2>4, <3>1, HeardOne
    <3> QED BY <2>1, <2>2, <2>3, <2>4, <3>2, ServerTypes DEF TypeOK, serverVars
  <2>5. CASE /\ me # NoNick
             /\ members' = [members EXCEPT ![c] = @ \cup {me}]
             /\ wire' = Heard(<<<<"JOIN", me, c>>,
                                <<"353", c, [n \in members[c] \cup {me} |-> Shown(c, n)]>>,
                                <<"366", c>>>>)
             /\ UNCHANGED <<me, others, granted>>
    <3>1. [n \in members[c] \cup {me} |-> Shown(c, n)] \in Listing
      BY <2>2, <2>3, <2>5, ShownTypes DEF TypeOK
    <3>a. /\ <<"JOIN", me, c>> \in Said /\ <<"366", c>> \in Said
          /\ <<"353", c, [n \in members[c] \cup {me} |-> Shown(c, n)]>> \in Said
      BY <2>2, <2>3, <2>5, <3>1, LinesSaid
    <3>b. <<<<"JOIN", me, c>>, <<"353", c, [n \in members[c] \cup {me} |-> Shown(c, n)]>>,
            <<"366", c>>>> \in Seq(Said)
      BY <3>a
    <3>2. wire' \in Seq(Said)
      BY <2>5, <3>b, HeardTypes
    <3>3. members' \in [Chan -> SUBSET Nick]
      BY <2>2, <2>3, <2>5 DEF TypeOK
    <3> QED BY <2>1, <2>2, <2>3, <2>5, <3>2, <3>3, ServerTypes DEF TypeOK
  <2> QED BY <1>2, <2>4, <2>5 DEF TakesJoin, serverVars
<1>3. ASSUME TakesPart PROVE TypeOK'
  <2> DEFINE c == out[1][2]
  <2>1. /\ out # <<>> /\ out[1][1] = "PART" /\ out' = Tail(out)
        /\ UNCHANGED <<bounds, left, link, phase, nickVars, reclaim, viewVars, wanted, pingVars,
                       clientVars, adrift>>
    BY <1>3 DEF TakesPart, Takes
  <2>2. c \in Chan /\ out' \in Seq(Commands)
    BY <2>1, Taken
  <2>3. left' \in [{"cuts", "commands", "events"} -> Nat] /\ me \in Nick \cup {NoNick}
    BY <2>1 DEF TypeOK
  <2>4. CASE wire' \in {Heard(<<<<"451">>>>), wire} /\ UNCHANGED serverVars
    <3>1. <<"451">> \in Said /\ wire \in Seq(Said)
      BY LinesSaid DEF TypeOK
    <3>2. wire' \in Seq(Said)
      BY <2>4, <3>1, HeardOne
    <3> QED BY <2>1, <2>2, <2>3, <2>4, <3>2, ServerTypes DEF TypeOK, serverVars
  <2>5. CASE /\ me # NoNick /\ Leave(me, {c}) /\ wire' = Heard(<<<<"PART", me, c>>>>)
             /\ UNCHANGED <<me, others>>
    <3>a. <<"PART", me, c>> \in Said
      BY <2>2, <2>3, <2>5, LinesSaid
    <3>1. wire' \in Seq(Said)
      BY <2>5, <3>a, HeardOne
    <3>2. members' \in [Chan -> SUBSET Nick] /\ granted' \in [Chan -> SUBSET (Nick \X Letter)]
      BY <2>5, LeaveTypes
    <3> QED BY <2>1, <2>2, <2>3, <2>5, <3>1, <3>2, ServerTypes DEF TypeOK
  <2> QED BY <1>3, <2>4, <2>5 DEF TakesPart, serverVars
<1>4. ASSUME TakesPing PROVE TypeOK'
  <2>1. /\ out # <<>> /\ out[1][1] = "PING" /\ out' = Tail(out)
        /\ UNCHANGED <<bounds, left, link, phase, nickVars, reclaim, viewVars, wanted, pingVars,
                       clientVars, adrift>>
        /\ wire' = Heard(<<<<"PONG", out[1][2]>>>>) /\ UNCHANGED serverVars
    BY <1>4 DEF TakesPing, Takes
  <2>2. out[1][2] \in Token /\ out' \in Seq(Commands)
    BY <2>1, Taken
  <2>a. <<"PONG", out[1][2]>> \in Said
    BY <2>2, LinesSaid
  <2>3. wire' \in Seq(Said)
    BY <2>1, <2>a, HeardOne
  <2> QED BY <2>1, <2>2, <2>3, ServerTypes DEF TypeOK, serverVars
<1> QED BY <1>1, <1>2, <1>3, <1>4 DEF Server

(* Others.                                                                 *)
LEMMA EventTypes ==
    ASSUME TypeOK, NEW kind, Event(kind)
    PROVE  /\ left' \in [{"cuts", "commands", "events"} -> Nat]
           /\ UNCHANGED <<bounds, link, phase, nickVars, reclaim, viewVars, wanted, pingVars,
                          clientVars, adrift, out, me>>
BY DEF TypeOK, Event, Spend

LEMMA ToldTypes ==
    ASSUME TypeOK, NEW cs, NEW line \in Said, Told(cs, line)
    PROVE  wire' \in Seq(Said)
<1>1. wire' = Heard(<<line>>) \/ wire' = Heard(<<>>)
  BY DEF Told
<1>2. <<>> \in Seq(Said)
  OBVIOUS
<1> QED BY <1>1, <1>2, HeardOne, HeardTypes

LEMMA OthersTypes ==
    ASSUME TypeOK, NEW kind, Event(kind), NEW cs, NEW line \in Said, Told(cs, line),
           others' \subseteq Nick, me \notin others',
           members' \in [Chan -> SUBSET Nick], granted' \in [Chan -> SUBSET (Nick \X Letter)]
    PROVE  TypeOK'
<1>1. /\ left' \in [{"cuts", "commands", "events"} -> Nat]
      /\ UNCHANGED <<bounds, link, phase, nickVars, reclaim, viewVars, wanted, pingVars,
                     clientVars, adrift, out, me>>
  BY EventTypes
<1>2. /\ wire' \in Seq(Said) /\ out' \in Seq(Commands)
      /\ me' \in Nick \cup {NoNick} /\ me' \notin others'
  BY <1>1, ToldTypes DEF TypeOK
<1> QED BY <1>1, <1>2, ServerTypes

LEMMA OthersKeepTypes == ASSUME TypeOK, Others PROVE TypeOK'
<1>1. ASSUME NEW n \in Nick, OtherQuits(n) PROVE TypeOK'
  <2>1. /\ Event("quit") /\ others' = others \ {n} /\ Leave(n, Chan)
        /\ Told({c \in Chan : n \in members[c]}, <<"QUIT", n>>)
    BY <1>1 DEF OtherQuits
  <2>2. <<"QUIT", n>> \in Said
    BY LinesSaid
  <2>3. members' \in [Chan -> SUBSET Nick] /\ granted' \in [Chan -> SUBSET (Nick \X Letter)]
    BY <2>1, LeaveTypes
  <2>4. others' \subseteq Nick /\ me \notin others'
    BY <2>1 DEF TypeOK
  <2> QED BY <2>1, <2>2, <2>3, <2>4, OthersTypes
<1>2. ASSUME NEW n \in Nick, NEW m \in Nick, OtherRenames(n, m) PROVE TypeOK'
  <2>1. /\ Event("nick") /\ others' = Renamed(others, n, m) /\ Rename(n, m) /\ m # me
        /\ Told({c \in Chan : n \in members[c]}, <<"NICK", n, m>>)
    BY <1>2 DEF OtherRenames
  <2>2. <<"NICK", n, m>> \in Said
    BY LinesSaid
  <2>3. members' \in [Chan -> SUBSET Nick] /\ granted' \in [Chan -> SUBSET (Nick \X Letter)]
    BY <2>1, RenameTypes
  <2>4. others' \subseteq Nick /\ me \notin others'
    BY <2>1 DEF TypeOK, Renamed
  <2> QED BY <2>1, <2>2, <2>3, <2>4, OthersTypes
<1>3. ASSUME NEW n \in Nick, NEW c \in Chan, OtherJoins(n, c) PROVE TypeOK'
  <2>1. /\ Event("join") /\ n # me /\ others' = others \cup {n} /\ UNCHANGED granted
        /\ members' = [members EXCEPT ![c] = @ \cup {n}] /\ Told({c}, <<"JOIN", n, c>>)
    BY <1>3 DEF OtherJoins
  <2>2. <<"JOIN", n, c>> \in Said
    BY LinesSaid
  <2>3. members' \in [Chan -> SUBSET Nick] /\ granted' \in [Chan -> SUBSET (Nick \X Letter)]
    BY <2>1 DEF TypeOK
  <2>4. others' \subseteq Nick /\ me \notin others'
    BY <2>1 DEF TypeOK
  <2> QED BY <2>1, <2>2, <2>3, <2>4, OthersTypes
<1>4. ASSUME NEW n \in Nick, NEW c \in Chan, OtherParts(n, c) \/ Kicks(n, c) PROVE TypeOK'
  <2>1. \E kind \in {"part", "kick"} : Event(kind)
    BY <1>4 DEF OtherParts, Kicks
  <2>2. \E line \in {<<"PART", n, c>>, <<"KICK", n, c>>} : Told({c}, line)
    BY <1>4 DEF OtherParts, Kicks
  <2>3. Leave(n, {c}) /\ others' = others
    BY <1>4 DEF OtherParts, Kicks
  <2>4. <<"PART", n, c>> \in Said /\ <<"KICK", n, c>> \in Said
    BY LinesSaid
  <2>5. members' \in [Chan -> SUBSET Nick] /\ granted' \in [Chan -> SUBSET (Nick \X Letter)]
    BY <2>3, LeaveTypes
  <2>6. others' \subseteq Nick /\ me \notin others'
    BY <2>3 DEF TypeOK
  <2> QED BY <2>1, <2>2, <2>4, <2>5, <2>6, OthersTypes
<1>5. ASSUME NEW n \in Nick, NEW c \in Chan, NEW letter \in Letter, NEW adding \in BOOLEAN,
             SetsMode(adding, letter, n, c)
      PROVE  TypeOK'
  <2>1. /\ Event("mode") /\ UNCHANGED <<others, members>>
        /\ granted' = [granted EXCEPT ![c] = IF adding THEN @ \cup {<<n, letter>>}
                                             ELSE @ \ {<<n, letter>>}]
        /\ Told({c}, <<"MODE", adding, letter, n, c>>)
    BY <1>5 DEF SetsMode
  <2>2. <<"MODE", adding, letter, n, c>> \in Said
    BY LinesSaid
  <2>3. members' \in [Chan -> SUBSET Nick] /\ granted' \in [Chan -> SUBSET (Nick \X Letter)]
    BY <2>1 DEF TypeOK
  <2>4. others' \subseteq Nick /\ me \notin others'
    BY <2>1 DEF TypeOK
  <2> QED BY <2>1, <2>2, <2>3, <2>4, OthersTypes
<1> QED BY <1>1, <1>2, <1>3, <1>4, <1>5 DEF Others

LEMMA BreaksTypes == ASSUME TypeOK, NEW how \in {"closed", "silent"}, Breaks(how) PROVE TypeOK'
<1>1. /\ link' = how /\ out' = <<>> /\ me' = NoNick /\ others' = others \cup ({me} \ {NoNick})
      /\ UNCHANGED <<bounds, wire, members, granted, phase, nickVars, reclaim, viewVars, wanted,
                   pingVars, clientVars, adrift>>
  BY DEF Breaks
<1>2. left' \in [{"cuts", "commands", "events"} -> Nat]
  BY DEF Breaks, Spend, TypeOK
<1>3. me' \in Nick \cup {NoNick} /\ others' \subseteq Nick /\ me' \notin others'
  BY <1>1, NickAssumption DEF TypeOK
<1> QED BY <1>1, <1>2, <1>3 DEF TypeOK, nickVars, viewVars, pingVars, clientVars

LEMMA GiveUpTypes ==
    ASSUME TypeOK, NEW there \in {"down", "invalid"}, GiveUp(there), UNCHANGED nickVars
    PROVE  TypeOK'
<1>1. /\ me' = NoNick /\ others' = others \cup ({me} \ {NoNick})
  BY DEF GiveUp
<1>2. me' \in Nick \cup {NoNick} /\ others' \subseteq Nick /\ me' \notin others'
  BY <1>1, NickAssumption DEF TypeOK
<1>3. cutShort' \subseteq Chan
  BY DEF TypeOK, GiveUp
<1>4. reconcile' \in [on : BOOLEAN, registered : BOOLEAN, desired : SUBSET Chan]
  BY DEF TypeOK, GiveUp
<1>5. /\ phase' = there /\ link' = "none" /\ out' = <<>> /\ wire' = <<>>
      /\ ledger' = {} /\ pinging' = {} /\ reclaim' = NoNick
      /\ UNCHANGED <<bounds, left, members, granted, joined, names, complete, wanted, client,
                     adrift, currentNick, desiredNick, preferredNick, attemptedNick,
                     nickFallbacks>>
  BY DEF GiveUp, nickVars
<1>6. <<>> \in Seq(Commands) /\ <<>> \in Seq(Said)
  OBVIOUS
<1> QED BY <1>2, <1>3, <1>4, <1>5, <1>6 DEF TypeOK

LEMMA WantedTypes ==
    ASSUME TypeOK
    PROVE  /\ \A S \in SUBSET Chan :
                [i \in DOMAIN SetToSeq(S) |-> <<"JOIN", SetToSeq(S)[i]>>] \in Seq(Commands)
           /\ \A S \in SUBSET Chan :
                [i \in DOMAIN SetToSeq(S) |-> <<"PART", SetToSeq(S)[i]>>] \in Seq(Commands)
<1> SUFFICES ASSUME NEW S \in SUBSET Chan
             PROVE  /\ [i \in DOMAIN SetToSeq(S) |-> <<"JOIN", SetToSeq(S)[i]>>] \in Seq(Commands)
                    /\ [i \in DOMAIN SetToSeq(S) |-> <<"PART", SetToSeq(S)[i]>>] \in Seq(Commands)
  OBVIOUS
<1>1. IsFiniteSet(S)
  BY ChanAssumption, FS_Subset
<1>2. SetToSeq(S) \in Seq(S)
  BY <1>1, SetToSeqIsOnto
<1> DEFINE s == SetToSeq(S)
<1>3. s \in Seq(Chan)
  BY <1>2
<1> HIDE DEF s
<1>4. \A i \in DOMAIN s : <<"JOIN", s[i]>> \in Commands /\ <<"PART", s[i]>> \in Commands
  BY <1>3, CommandsAre
<1>5. DOMAIN s = 1..Len(s) /\ Len(s) \in Nat
  BY <1>3
<1>6. ASSUME NEW f, f \in [1..Len(s) -> Commands] PROVE f \in Seq(Commands)
  BY <1>5, <1>6
<1>7. [i \in DOMAIN s |-> <<"JOIN", s[i]>>] \in [1..Len(s) -> Commands]
  BY <1>4, <1>5
<1>8. [i \in DOMAIN s |-> <<"PART", s[i]>>] \in [1..Len(s) -> Commands]
  BY <1>4, <1>5
<1> QED BY <1>6, <1>7, <1>8 DEF s

(* A line, by its first word.                                              *)
LEMMA Heads ==
    ASSUME TypeOK, wire # <<>>
    PROVE  /\ Tail(wire) \in Seq(Said)
           /\ wire[1][1] \in {"001", "QUIT"} => wire[1][2] \in Nick
           /\ wire[1][1] \in {"366", "474"} => wire[1][2] \in Chan
           /\ wire[1][1] = "353" => wire[1][2] \in Chan /\ wire[1][3] \in Listing
           /\ wire[1][1] \in {"JOIN", "PART", "KICK"} => wire[1][2] \in Nick /\ wire[1][3] \in Chan
           /\ wire[1][1] = "NICK" => wire[1][2] \in Nick /\ wire[1][3] \in Nick
           /\ wire[1][1] = "MODE" => /\ wire[1][2] \in BOOLEAN /\ wire[1][3] \in Letter
                                     /\ wire[1][4] \in Nick /\ wire[1][5] \in Chan
<1> DEFINE l == wire[1]
<1>1. l \in Said /\ Tail(wire) \in Seq(Said)
  BY DEF TypeOK
<1> HIDE DEF l
<1>2. CASE l \in {<<"433">>, <<"451">>}
  <2>1. l[1] \in {"433", "451"}
    BY <1>2
  <2> QED BY <1>1, <2>1 DEF l
<1>3. CASE l \in {"001", "QUIT"} \X Nick
  <2>1. l[1] \in {"001", "QUIT"} /\ l[2] \in Nick
    BY <1>3
  <2> QED BY <1>1, <2>1 DEF l
<1>4. CASE l \in {"366", "474"} \X Chan
  <2>1. l[1] \in {"366", "474"} /\ l[2] \in Chan
    BY <1>4
  <2> QED BY <1>1, <2>1 DEF l
<1>5. CASE l \in {"PONG"} \X Token
  <2>1. l[1] = "PONG"
    BY <1>5
  <2> QED BY <1>1, <2>1 DEF l
<1>6. CASE l \in {"353"} \X Chan \X Listing
  <2>1. l[1] = "353" /\ l[2] \in Chan /\ l[3] \in Listing
    BY <1>6
  <2> QED BY <1>1, <2>1 DEF l
<1>7. CASE l \in {"JOIN", "PART", "KICK"} \X Nick \X Chan
  <2>1. l[1] \in {"JOIN", "PART", "KICK"} /\ l[2] \in Nick /\ l[3] \in Chan
    BY <1>7
  <2> QED BY <1>1, <2>1 DEF l
<1>8. CASE l \in {"NICK"} \X Nick \X Nick
  <2>1. l[1] = "NICK" /\ l[2] \in Nick /\ l[3] \in Nick
    BY <1>8
  <2> QED BY <1>1, <2>1 DEF l
<1>9. CASE l \in {"MODE"} \X BOOLEAN \X Letter \X Nick \X Chan
  <2>1. l[1] = "MODE" /\ l[2] \in BOOLEAN /\ l[3] \in Letter /\ l[4] \in Nick /\ l[5] \in Chan
    BY <1>9
  <2> QED BY <1>1, <2>1 DEF l
<1> QED BY <1>1, <1>2, <1>3, <1>4, <1>5, <1>6, <1>7, <1>8, <1>9 DEF Said

LEMMA SupervisorKeepsTypes == ASSUME TypeOK, Supervisor PROVE TypeOK'
<1>1. ASSUME Register PROVE TypeOK'
  <2>1. effectiveNick \in Nick
    BY NickAssumption DEF effectiveNick, TypeOK
  <2>2. <<"NICK", effectiveNick>> \in Commands
    BY <2>1, CommandsAre
  <2>3. out' \in Seq(Commands)
    BY <1>1, <2>2 DEF Register
  <2> QED BY <1>1, <2>1, <2>3, NickAssumption DEF Register, TypeOK, serverVars, viewVars,
             pingVars, clientVars
<1>2. ASSUME Fallback PROVE TypeOK'
  <2>1. NextFallback \in Nick /\ nickFallbacks' \in 0..maxNickFallbacks
    BY <1>2, NickAssumption DEF Fallback, NextFallback, TypeOK
  <2>2. <<<<"NICK", NextFallback>>>> \in Seq(Commands)
    BY <2>1, CommandsAre
  <2>3. out' \in Seq(Commands)
    BY <1>2, <2>2, SentTypes DEF Fallback
  <2>4. wire' \in Seq(Said)
    BY <1>2, Heads DEF Fallback, Reads
  <2> QED BY <1>2, <2>1, <2>3, <2>4 DEF Fallback, TypeOK, serverVars, viewVars,
             pingVars, clientVars
<1>3. ASSUME Exhausted PROVE TypeOK'
  BY <1>3, GiveUpTypes DEF Exhausted
<1>4. ASSUME Rejoin PROVE TypeOK'
  <2>1. wire # <<>> /\ wire[1][1] = "001" /\ wire' = Tail(wire) /\ currentNick' = wire[1][2]
    BY <1>4 DEF Rejoin, Reads
  <2>2. wire' \in Seq(Said) /\ currentNick' \in Nick
    BY <2>1, Heads
  <2>3. [i \in DOMAIN SetToSeq(wanted) |-> <<"JOIN", SetToSeq(wanted)[i]>>] \in Seq(Commands)
    BY WantedTypes DEF TypeOK
  <2>4. out' \in Seq(Commands)
    BY <1>4, <2>3, SentTypes DEF Rejoin
  <2>5. client' \in [command : {"none", "JOIN", "PART"}, channel : SUBSET Chan, passed : BOOLEAN]
    <3>1. client' = [client EXCEPT !.passed = client.channel # {}]
      BY <1>4 DEF Rejoin
    <3>2. client \in [command : {"none", "JOIN", "PART"}, channel : SUBSET Chan, passed : BOOLEAN]
      BY DEF TypeOK
    <3> QED BY <3>1, <3>2
  <2> QED BY <1>4, <2>2, <2>4, <2>5 DEF Rejoin, TypeOK, serverVars, viewVars, pingVars
<1>5. ASSUME Registered PROVE TypeOK'
  BY <1>5 DEF Registered, TypeOK, netVars, serverVars, viewVars, pingVars, clientVars
<1>6. ASSUME Fails PROVE TypeOK'
  BY <1>6, GiveUpTypes DEF Fails
<1> QED BY <1>1, <1>2, <1>3, <1>4, <1>5, <1>6 DEF Supervisor

LEMMA OvertakesTypes ==
    ASSUME TypeOK, NEW kind, NEW c, Overtakes(kind, c)
    PROVE  client' \in [command : {"none", "JOIN", "PART"}, channel : SUBSET Chan, passed : BOOLEAN]
<1>1. client \in [command : {"none", "JOIN", "PART"}, channel : SUBSET Chan, passed : BOOLEAN]
  BY DEF TypeOK
<1> QED BY <1>1 DEF Overtakes

LEMMA Views ==
    ASSUME NEW view \in Listing, NEW n \in Nick
    PROVE  /\ Without(view, n) \in Listing
           /\ \A prefix \in Prefix : With(view, n, prefix) \in Listing
           /\ DOMAIN view \subseteq Nick /\ \A m \in DOMAIN view : view[m] \in Prefix
<1>1. DOMAIN view \subseteq Nick /\ \A m \in DOMAIN view : view[m] \in Prefix
  BY DEF Listing
<1>2. Without(view, n) \in [DOMAIN view \ {n} -> Prefix]
  BY <1>1 DEF Without
<1>3. ASSUME NEW prefix \in Prefix PROVE With(view, n, prefix) \in [DOMAIN view \cup {n} -> Prefix]
  BY <1>1 DEF With
<1>4. DOMAIN view \ {n} \in SUBSET Nick /\ DOMAIN view \cup {n} \in SUBSET Nick
  BY <1>1
<1> QED BY <1>1, <1>2, <1>3, <1>4 DEF Listing

LEMMA SetTypes ==
    ASSUME TypeOK, NEW c, NEW view \in Listing, Set(c, view)
    PROVE  DOMAIN names' = Chan /\ \A d \in Chan : names'[d] \in Listing
BY DEF TypeOK, Set

LEMMA DispatchTypes ==
    ASSUME TypeOK, NEW line, Dispatch(line),
           {currentNick, desiredNick}' \subseteq Nick, joined' \subseteq Chan,
           complete' \subseteq joined', DOMAIN names' = Chan,
           \A c \in Chan : names'[c] \in Listing,
           wanted' \subseteq Chan, adrift' \subseteq Chan, cutShort' \subseteq Chan,
           ledger' \subseteq Token,
           client' \in [command : {"none", "JOIN", "PART"}, channel : SUBSET Chan, passed : BOOLEAN]
    PROVE  TypeOK'
<1>1. /\ wire # <<>> /\ wire' = Tail(wire)
      /\ UNCHANGED <<bounds, left, link, out, me, others, members, granted, phase, preferredNick,
                     attemptedNick, nickFallbacks, reclaim, pinging, reconcile>>
  BY DEF Dispatch, Reads, serverVars
<1>2. wire' \in Seq(Said)
  BY <1>1, Heads
<1> QED BY <1>1, <1>2 DEF TypeOK

LEMMA DispatcherKeepsTypes == ASSUME TypeOK, Dispatcher PROVE TypeOK'
<1> DEFINE Frame == /\ {currentNick, desiredNick} \subseteq Nick /\ joined \subseteq Chan
                    /\ complete \subseteq joined /\ DOMAIN names = Chan
                    /\ \A c \in Chan : names[c] \in Listing
                    /\ wanted \subseteq Chan /\ adrift \subseteq Chan /\ cutShort \subseteq Chan
                    /\ ledger \subseteq Token
           ClientTyped == client \in [command : {"none", "JOIN", "PART"}, channel : SUBSET Chan,
                                passed : BOOLEAN]
<1>0. Frame /\ ClientTyped
  BY DEF TypeOK
<1>1. ASSUME handleJoin PROVE TypeOK'
  <2>1. Dispatch("JOIN") /\ wire # <<>> /\ wire[1][1] = "JOIN"
    BY <1>1 DEF handleJoin, Dispatch, Reads
  <2> DEFINE n == wire[1][2]
             c == wire[1][3]
  <2>2. n \in Nick /\ c \in Chan
    BY <2>1, Heads
  <2>3. UNCHANGED <<complete, cutShort, currentNick, desiredNick, ledger>>
    BY <1>1 DEF handleJoin
  <2>4. CASE /\ joined' = joined \cup {c} /\ wanted' = wanted \cup {c}
             /\ adrift' = adrift \ {c} /\ Overtakes("JOIN", c) /\ UNCHANGED names
    <3>1. ClientTyped'
      BY <2>4, OvertakesTypes
    <3>2. Frame'
      BY <1>0, <2>2, <2>3, <2>4
    <3> QED BY <2>1, <3>1, <3>2, DispatchTypes
  <2>5. CASE /\ IF c \in joined /\ n \notin DOMAIN names[c]
                THEN Set(c, With(names[c], n, "")) ELSE UNCHANGED names
             /\ UNCHANGED <<joined, wanted, adrift, client>>
    <3>1. DOMAIN names' = Chan /\ \A d \in Chan : names'[d] \in Listing
      <4>1. CASE UNCHANGED names
        BY <1>0, <4>1
      <4>2. CASE Set(c, With(names[c], n, ""))
        <5>1. With(names[c], n, "") \in Listing
          BY <1>0, <2>2, Views DEF Prefix
        <5> QED BY <4>2, <5>1, SetTypes
      <4> QED BY <2>5, <4>1, <4>2
    <3>2. Frame'
      BY <1>0, <2>3, <2>5, <3>1
    <3> QED BY <1>0, <2>1, <2>5, <3>2, DispatchTypes
  <2> QED BY <1>1, <2>4, <2>5 DEF handleJoin
<1>2. ASSUME handlePart PROVE TypeOK'
  <2>1. Dispatch("PART") /\ wire # <<>> /\ wire[1][1] = "PART"
    BY <1>2 DEF handlePart, Dispatch, Reads
  <2> DEFINE n == wire[1][2]
             c == wire[1][3]
  <2>2. n \in Nick /\ c \in Chan
    BY <2>1, Heads
  <2>3. UNCHANGED <<currentNick, desiredNick, ledger>>
    BY <1>2 DEF handlePart
  <2>4. CASE /\ joined' = joined \ {c} /\ complete' = complete \ {c} /\ Set(c, Nobody)
             /\ cutShort' = cutShort \ {c}
             /\ wanted' = wanted \ {c} /\ adrift' = adrift \ {c} /\ Overtakes("PART", c)
    <3>1. ClientTyped'
      BY <2>4, OvertakesTypes
    <3>2. Nobody \in Listing
      BY DEF Nobody, Listing
    <3>3. DOMAIN names' = Chan /\ \A d \in Chan : names'[d] \in Listing
      BY <2>4, <3>2, SetTypes
    <3>4. Frame'
      BY <1>0, <2>2, <2>3, <2>4, <3>3
    <3> QED BY <2>1, <3>1, <3>4, DispatchTypes
  <2>5. CASE /\ Set(c, Without(names[c], n))
             /\ UNCHANGED <<joined, complete, cutShort, wanted, adrift, client>>
    <3>1. Without(names[c], n) \in Listing
      BY <1>0, <2>2, Views
    <3>2. DOMAIN names' = Chan /\ \A d \in Chan : names'[d] \in Listing
      BY <2>5, <3>1, SetTypes
    <3>3. Frame'
      BY <1>0, <2>3, <2>5, <3>2
    <3> QED BY <1>0, <2>1, <2>5, <3>3, DispatchTypes
  <2> QED BY <1>2, <2>4, <2>5 DEF handlePart
<1>3. ASSUME handleQuit PROVE TypeOK'
  <2>1. /\ Dispatch("QUIT") /\ wire # <<>> /\ wire[1][1] = "QUIT"
        /\ names' = [c \in Chan |-> Without(names[c], wire[1][2])]
        /\ UNCHANGED <<joined, complete, cutShort, wanted, adrift, client, currentNick,
                       desiredNick, ledger>>
    BY <1>3 DEF handleQuit, Dispatch, Reads
  <2>2. wire[1][2] \in Nick
    BY <2>1, Heads
  <2>3. DOMAIN names' = Chan /\ \A d \in Chan : names'[d] \in Listing
    BY <1>0, <2>1, <2>2, Views
  <2>4. Frame'
    BY <1>0, <2>1, <2>3
  <2> QED BY <1>0, <2>1, <2>4, DispatchTypes
<1>4. ASSUME handleKick PROVE TypeOK'
  <2> DEFINE n == wire[1][2]
             c == wire[1][3]
  <2>1. /\ Dispatch("KICK") /\ wire # <<>> /\ wire[1][1] = "KICK"
        /\ Set(c, Without(names[c], n))
        /\ adrift' = IF n = currentNick THEN adrift \cup {c} ELSE adrift
        /\ UNCHANGED <<joined, complete, cutShort, wanted, client, currentNick, desiredNick,
                       ledger>>
    BY <1>4 DEF handleKick, Dispatch, Reads
  <2>2. n \in Nick /\ c \in Chan
    BY <2>1, Heads
  <2>3. Without(names[c], n) \in Listing
    BY <1>0, <2>2, Views
  <2>4. DOMAIN names' = Chan /\ \A d \in Chan : names'[d] \in Listing
    BY <2>1, <2>3, SetTypes
  <2>5. Frame'
    BY <1>0, <2>1, <2>2, <2>4
  <2> QED BY <1>0, <2>1, <2>5, DispatchTypes
<1>5. ASSUME handleNickChange PROVE TypeOK'
  <2> DEFINE old == wire[1][2]
             new == wire[1][3]
             View(c) == IF old \in DOMAIN names[c]
                        THEN Without(With(names[c], new, names[c][old]), old) ELSE names[c]
  <2>1. /\ Dispatch("NICK") /\ wire # <<>> /\ wire[1][1] = "NICK"
        /\ names' = [c \in Chan |-> View(c)]
        /\ UNCHANGED <<joined, complete, cutShort, wanted, adrift, client, ledger>>
    BY <1>5 DEF handleNickChange, Dispatch, Reads
  <2>2. old \in Nick /\ new \in Nick
    BY <2>1, Heads
  <2>3. {currentNick, desiredNick}' \subseteq Nick
    BY <1>0, <1>5, <2>2 DEF handleNickChange
  <2>4. ASSUME NEW c \in Chan PROVE View(c) \in Listing
    <3>1. CASE old \in DOMAIN names[c]
      <4>1. names[c][old] \in Prefix
        BY <1>0, <2>2, <3>1, Views
      <4>2. With(names[c], new, names[c][old]) \in Listing
        BY <1>0, <2>2, <4>1, Views
      <4>3. Without(With(names[c], new, names[c][old]), old) \in Listing
        BY <2>2, <4>2, Views
      <4> QED BY <3>1, <4>3
    <3>2. CASE old \notin DOMAIN names[c]
      BY <1>0, <3>2
    <3> QED BY <3>1, <3>2
  <2> HIDE DEF View
  <2>5. DOMAIN names' = Chan /\ \A d \in Chan : names'[d] \in Listing
    BY <2>1, <2>4
  <2>6. Frame'
    BY <1>0, <2>1, <2>3, <2>5
  <2> QED BY <1>0, <2>1, <2>6, DispatchTypes
<1>6. ASSUME handleMode PROVE TypeOK'
  <2> DEFINE n == wire[1][4]
             c == wire[1][5]
             view == [names[c] EXCEPT ![n] = Displayed(@, wire[1][2], wire[1][3])]
  <2>1. /\ Dispatch("MODE") /\ wire # <<>> /\ wire[1][1] = "MODE"
        /\ IF n \in DOMAIN names[c] THEN Set(c, view) ELSE UNCHANGED names
        /\ UNCHANGED <<joined, complete, cutShort, wanted, adrift, client, currentNick,
                       desiredNick, ledger>>
    BY <1>6 DEF handleMode, Dispatch, Reads
  <2>2. wire[1][2] \in BOOLEAN /\ wire[1][3] \in Letter /\ n \in Nick /\ c \in Chan
    BY <2>1, Heads
  <2>3. ASSUME n \in DOMAIN names[c] PROVE view \in Listing
    <3>1. names[c] \in [DOMAIN names[c] -> Prefix] /\ DOMAIN names[c] \in SUBSET Nick
      BY <1>0, <2>2 DEF Listing
    <3>2. PrefixOf[wire[1][3]] \in Prefix
      <4>1. PrefixOf.q \in Prefix /\ PrefixOf.o \in Prefix /\ PrefixOf.v \in Prefix
        BY DEF PrefixOf, Prefix
      <4>2. wire[1][3] = "q" \/ wire[1][3] = "o" \/ wire[1][3] = "v"
        BY <2>2 DEF Letter
      <4> QED BY <4>1, <4>2
    <3>3. Displayed(names[c][n], wire[1][2], wire[1][3]) \in Prefix
      BY <2>3, <3>1, <3>2 DEF Displayed, Prefix
    <3>4. view \in [DOMAIN names[c] -> Prefix]
      BY <2>3, <3>1, <3>3
    <3> QED BY <3>1, <3>4 DEF Listing
  <2> HIDE DEF view
  <2>4. DOMAIN names' = Chan /\ \A d \in Chan : names'[d] \in Listing
    BY <1>0, <2>1, <2>3, SetTypes
  <2>5. Frame'
    BY <1>0, <2>1, <2>4
  <2> QED BY <1>0, <2>1, <2>5, DispatchTypes
<1>7. ASSUME OnNamesReply PROVE TypeOK'
  <2> DEFINE c == wire[1][2]
             listed == wire[1][3]
             view == [n \in DOMAIN listed \cup Kept(c) |->
                         IF n \in DOMAIN listed THEN listed[n] ELSE names[c][n]]
  <2>1. /\ Dispatch("353") /\ wire # <<>> /\ wire[1][1] = "353"
        /\ joined' = joined \cup {c} /\ complete' = complete \ {c}
        /\ cutShort' = IF c \in complete THEN cutShort \ {c} ELSE cutShort
        /\ Set(c, view)
        /\ UNCHANGED <<wanted, adrift, client, currentNick, desiredNick, ledger>>
    BY <1>7 DEF OnNamesReply, Dispatch, Reads
  <2>2. c \in Chan /\ listed \in Listing
    BY <2>1, Heads
  <2>3. view \in Listing
    <3>1. /\ listed \in [DOMAIN listed -> Prefix] /\ DOMAIN listed \in SUBSET Nick
          /\ names[c] \in [DOMAIN names[c] -> Prefix] /\ DOMAIN names[c] \in SUBSET Nick
      BY <1>0, <2>2 DEF Listing
    <3>2. Kept(c) \subseteq DOMAIN names[c]
      BY DEF Kept
    <3>3. view \in [DOMAIN listed \cup Kept(c) -> Prefix]
      BY <3>1, <3>2
    <3>4. DOMAIN listed \cup Kept(c) \in SUBSET Nick
      BY <3>1, <3>2
    <3> QED BY <3>3, <3>4 DEF Listing
  <2> HIDE DEF view
  <2>4. DOMAIN names' = Chan /\ \A d \in Chan : names'[d] \in Listing
    BY <2>1, <2>3, SetTypes
  <2>5. Frame'
    BY <1>0, <2>1, <2>2, <2>4
  <2> QED BY <1>0, <2>1, <2>5, DispatchTypes
<1>8. ASSUME OnNamesEnd PROVE TypeOK'
  <2>1. /\ Dispatch("366") /\ complete' = complete \cup ({wire[1][2]} \cap joined)
        /\ UNCHANGED <<joined, names, cutShort, wanted, adrift, client, currentNick,
                       desiredNick, ledger>>
    BY <1>8 DEF OnNamesEnd
  <2> QED BY <1>0, <2>1, DispatchTypes
<1>9. ASSUME handleJoinFailure PROVE TypeOK'
  <2>1. /\ Dispatch("474") /\ wanted' = wanted \ {wire[1][2]}
        /\ adrift' = adrift \ {wire[1][2]} /\ Overtakes("474", wire[1][2])
        /\ UNCHANGED <<joined, names, complete, cutShort, currentNick, desiredNick, ledger>>
    BY <1>9 DEF handleJoinFailure
  <2>2. ClientTyped'
    BY <2>1, OvertakesTypes
  <2> QED BY <1>0, <2>1, <2>2, DispatchTypes
<1>10. ASSUME Ack PROVE TypeOK'
  BY <1>0, <1>10, DispatchTypes DEF Ack
<1>11. ASSUME Refused PROVE TypeOK'
  BY <1>0, <1>11, DispatchTypes DEF Refused
<1> QED BY <1>1, <1>2, <1>3, <1>4, <1>5, <1>6, <1>7, <1>8, <1>9, <1>10, <1>11 DEF Dispatcher

LEMMA RestKeepsTypes ==
    ASSUME TypeOK, ReclaimTick \/ Reclaim \/ Ping \/ Asked \/ Records \/ Reconciles
    PROVE  TypeOK'
<1>1. ASSUME ReclaimTick PROVE TypeOK'
  BY <1>1 DEF ReclaimTick, TypeOK, netVars, serverVars, nickVars, viewVars, pingVars, clientVars
<1>2. ASSUME Reclaim PROVE TypeOK'
  <2>1. reclaim \in Nick
    BY <1>2 DEF Reclaim, TypeOK
  <2>2. <<<<"NICK", reclaim>>>> \in Seq(Commands)
    BY <2>1, CommandsAre
  <2>3. out' \in Seq(Commands)
    BY <1>2, <2>2, SentTypes DEF Reclaim
  <2> QED BY <1>2, <2>3 DEF Reclaim, TypeOK, serverVars, nickVars, viewVars, pingVars, clientVars
<1>3. ASSUME Ping PROVE TypeOK'
  <2>1. UNCHANGED <<bounds, left, link, wire, serverVars, phase, nickVars, reclaim, viewVars,
                    wanted, clientVars, adrift>>
    BY <1>3 DEF Ping
  <2>2. CASE \E t \in Fresh : pinging' = {t} /\ ledger' = ledger \cup {t} /\ out' = out
    BY <2>1, <2>2 DEF Fresh, TypeOK, serverVars, nickVars, viewVars, clientVars
  <2>3. CASE /\ \E t \in pinging : out' = Sent(<<<<"PING", t>>>>)
             /\ pinging' = {} /\ UNCHANGED ledger
    <3>1. PICK t \in pinging : out' = Sent(<<<<"PING", t>>>>)
      BY <2>3
    <3>2. <<<<"PING", t>>>> \in Seq(Commands)
      BY <3>1, CommandsAre DEF TypeOK
    <3>3. out' \in Seq(Commands)
      BY <3>1, <3>2, SentTypes
    <3> QED BY <2>1, <2>3, <3>3 DEF TypeOK, serverVars, nickVars, viewVars, clientVars
  <2> QED BY <1>3, <2>2, <2>3 DEF Ping
<1> DEFINE Given == /\ left \in [{"cuts", "commands", "events"} -> Nat] /\ out \in Seq(Commands)
                    /\ phase \in {"down", "registering", "rejoined", "on", "invalid"}
                    /\ desiredNick \in Nick /\ preferredNick \in Nick \cup {NoNick}
                    /\ wanted \subseteq Chan /\ adrift \subseteq Chan
                    /\ client \in [command : {"none", "JOIN", "PART"}, channel : SUBSET Chan,
                                   passed : BOOLEAN]
                    /\ reconcile \in [on : BOOLEAN, registered : BOOLEAN, desired : SUBSET Chan]
<1>4. Given
  BY DEF TypeOK
<1>5. ASSUME NEW kind, Command(kind)
      PROVE  left' \in [{"cuts", "commands", "events"} -> Nat] /\ (Given' => TypeOK')
  <2>1. left' \in [{"cuts", "commands", "events"} -> Nat]
    BY <1>5 DEF Command, Spend, TypeOK
  <2>2. UNCHANGED <<bounds, link, wire, me, others, members, granted, currentNick, attemptedNick,
                    nickFallbacks, reclaim, joined, names, complete, cutShort, ledger, pinging>>
    BY <1>5 DEF Command, serverVars, viewVars, pingVars
  <2> QED BY <2>1, <2>2 DEF TypeOK
<1>6. ASSUME Asked PROVE TypeOK'
  <2>1. ASSUME NEW c \in Chan, NEW kind \in {"JOIN", "PART"}, Forwards(kind, c) PROVE TypeOK'
    <3>a. <<kind, c>> \in Commands
      BY DEF Commands
    <3>1. <<<<kind, c>>>> \in Seq(Commands)
      BY <3>a
    <3>2. out' \in Seq(Commands)
      BY <2>1, <3>1, SentTypes DEF Forwards
    <3> QED BY <1>4, <1>5, <2>1, <3>2 DEF Forwards
  <2>2. ASSUME NEW c \in Chan, NEW kind \in {"JOIN", "PART"}, Detached(kind, c) PROVE TypeOK'
    BY <1>4, <1>5, <2>2 DEF Detached, Changed, clientVars
  <2>3. ASSUME NEW command \in Commands, SendRaw(command) PROVE TypeOK'
    <3>1. <<command>> \in Seq(Commands)
      OBVIOUS
    <3>2. out' \in Seq(Commands)
      BY <2>3, <3>1, SentTypes DEF SendRaw
    <3> QED BY <1>4, <1>5, <2>3, <3>2 DEF SendRaw, clientVars
  <2>4. ASSUME NEW n \in Nick, DetachedNick(n) PROVE TypeOK'
    BY <1>4, <1>5, <2>4 DEF DetachedNick, clientVars
  <2>5. ASSUME NEW n \in Nick, ApplyNick(n) PROVE TypeOK'
    <3>1. <<<<"NICK", n>>>> \in Seq(Commands)
      BY CommandsAre
    <3>2. out' \in Seq(Commands)
      BY <1>4, <2>5, <3>1, SentTypes DEF ApplyNick
    <3> QED BY <1>4, <1>5, <2>5, <3>2 DEF ApplyNick, clientVars
  <2>6. ASSUME NEW desired \in SUBSET Chan, ReconcileChannels(desired) PROVE TypeOK'
    BY <1>4, <1>5, <2>6 DEF ReconcileChannels
  <2> QED BY <1>6, <2>1, <2>2, <2>3, <2>4, <2>5, <2>6, CommandsAre DEF Asked
<1>7. ASSUME Records PROVE TypeOK'
  <2>1. Given'
    BY <1>4, <1>7 DEF Records, Changed, Idle, netVars, nickVars
  <2> QED BY <1>7, <2>1 DEF Records, TypeOK, netVars, serverVars, nickVars, viewVars, pingVars
<1>8. ASSUME Reconciles PROVE TypeOK'
  <2> DEFINE gone == SetToSeq(wanted \ reconcile.desired)
             new == SetToSeq(reconcile.desired \ wanted)
             parts == [i \in DOMAIN gone |-> <<"PART", gone[i]>>]
             joins == [i \in DOMAIN new |-> <<"JOIN", new[i]>>]
  <2>1. parts \in Seq(Commands) /\ joins \in Seq(Commands)
    <3>1. wanted \ reconcile.desired \in SUBSET Chan /\ reconcile.desired \ wanted \in SUBSET Chan
      BY <1>4
    <3> QED BY <3>1, WantedTypes
  <2>2. out' = (IF reconcile.registered THEN Sent(parts \o joins) ELSE out)
    BY <1>8 DEF Reconciles
  <2> HIDE DEF parts, joins
  <2>3. parts \o joins \in Seq(Commands)
    BY <2>1
  <2>4. out' \in Seq(Commands)
    BY <1>4, <2>2, <2>3, SentTypes
  <2>5. /\ reconcile' = [on |-> FALSE, registered |-> FALSE, desired |-> {}]
        /\ wanted' = reconcile.desired
        /\ adrift' = IF ~reconcile.registered /\ phase \in {"rejoined", "on"}
                     THEN adrift \cup {c \in Chan : (c \in wanted) # (c \in reconcile.desired)}
                     ELSE adrift
        /\ UNCHANGED <<bounds, left, link, wire, serverVars, phase, nickVars, reclaim, viewVars,
                       pingVars, client>>
    BY <1>8 DEF Reconciles
  <2>6. /\ reconcile' \in [on : BOOLEAN, registered : BOOLEAN, desired : SUBSET Chan]
        /\ wanted' \subseteq Chan /\ adrift' \subseteq Chan
    BY <1>4, <2>5
  <2> QED BY <2>4, <2>5, <2>6 DEF TypeOK, serverVars, nickVars, viewVars, pingVars
<1> QED BY <1>1, <1>2, <1>3, <1>6, <1>7, <1>8

LEMMA TypesAreKept == ASSUME TypeOK, Next PROVE TypeOK'
<1>1. ASSUME PongTimeout PROVE TypeOK'
  BY <1>1, GiveUpTypes DEF PongTimeout
<1> QED BY <1>1, ServerKeepsTypes, OthersKeepTypes, BreaksTypes, SupervisorKeepsTypes,
        DispatcherKeepsTypes, RestKeepsTypes DEF Next
-----------------------------------------------------------------------------
(* The server, and the places.                                             *)

LEMMA ServerInvKept == ASSUME TypeOK, ServerInv, Server \/ Others PROVE ServerInv'
<1>0. /\ \A c \in Chan : /\ members[c] \in SUBSET Nick /\ granted[c] \in SUBSET (Nick \X Letter)
                         /\ members[c] \subseteq others \cup {me}
                         /\ granted[c] \subseteq members[c] \X Letter
      /\ me \notin others /\ NoNick \notin Nick
  BY NickAssumption DEF TypeOK, ServerInv
<1>1. ASSUME NEW n, NEW cs, Leave(n, cs), others' = others, me' = me PROVE ServerInv'
  <2>1. ASSUME NEW c \in Chan
        PROVE  /\ members'[c] \subseteq members[c]
               /\ granted'[c] \subseteq members'[c] \X Letter
    <3>1. CASE c \in cs
      <4>1. members'[c] = members[c] \ {n} /\ granted'[c] = {g \in granted[c] : g[1] # n}
        BY <1>1, <3>1 DEF Leave
      <4> QED BY <1>0, <4>1
    <3>2. CASE c \notin cs
      <4>1. members'[c] = members[c] /\ granted'[c] = granted[c]
        BY <1>1, <3>2 DEF Leave
      <4> QED BY <1>0, <4>1
    <3> QED BY <3>1, <3>2
  <2> QED BY <1>0, <1>1, <2>1 DEF ServerInv
<1>2. ASSUME NEW old, NEW new, Rename(old, new), NEW c \in Chan
      PROVE  /\ members'[c] = Renamed(members[c], old, new)
             /\ granted'[c] \subseteq members'[c] \X Letter
  <2>1. /\ members'[c] = Renamed(members[c], old, new)
        /\ granted'[c] = {IF g[1] = old THEN <<new, g[2]>> ELSE g : g \in granted[c]}
    BY <1>2 DEF Rename, RenamedModes
  <2>2. ASSUME NEW g \in granted[c]
        PROVE  (IF g[1] = old THEN <<new, g[2]>> ELSE g) \in members'[c] \X Letter
    <3>1. g \in members[c] \X Letter
      BY <1>0, <2>2
    <3>2. g[1] \in members[c] /\ g[2] \in Letter /\ g = <<g[1], g[2]>>
      BY <3>1
    <3>3. CASE g[1] = old
      BY <2>1, <3>2, <3>3 DEF Renamed
    <3>4. CASE g[1] # old
      BY <2>1, <3>2, <3>4 DEF Renamed
    <3> QED BY <3>3, <3>4
  <2> QED BY <2>1, <2>2
<1>3. ASSUME TakesNick PROVE ServerInv'
  <2>1. CASE UNCHANGED serverVars
    BY <2>1 DEF ServerInv, serverVars
  <2>2. CASE me = NoNick /\ UNCHANGED <<others, members, granted>>
    BY <1>0, <2>2 DEF ServerInv
  <2>3. CASE Rename(me, out[1][2]) /\ me' = out[1][2] /\ UNCHANGED others
    <3>1. ASSUME NEW c \in Chan PROVE members'[c] \subseteq others' \cup {me'}
      <4>1. members'[c] = Renamed(members[c], me, out[1][2])
        BY <1>2, <2>3
      <4> QED BY <1>0, <2>3, <4>1 DEF Renamed
    <3> QED BY <1>2, <2>3, <3>1 DEF ServerInv
  <2> QED BY <1>3, <2>1, <2>2, <2>3 DEF TakesNick
<1>4. ASSUME TakesJoin PROVE ServerInv'
  <2>1. CASE UNCHANGED serverVars
    BY <2>1 DEF ServerInv, serverVars
  <2>2. CASE /\ members' = [members EXCEPT ![out[1][2]] = @ \cup {me}]
             /\ UNCHANGED <<me, others, granted>>
    <3>1. \A c \in Chan : members'[c] = members[c] \/ members'[c] = members[c] \cup {me}
      BY <2>2 DEF TypeOK
    <3> QED BY <1>0, <2>2, <3>1 DEF ServerInv
  <2> QED BY <1>4, <2>1, <2>2 DEF TakesJoin, serverVars
<1>5. ASSUME TakesPart PROVE ServerInv'
  <2>1. CASE UNCHANGED serverVars
    BY <2>1 DEF ServerInv, serverVars
  <2> QED BY <1>1, <1>5, <2>1 DEF TakesPart, serverVars
<1>6. ASSUME TakesPing PROVE ServerInv'
  BY <1>6 DEF TakesPing, ServerInv, serverVars
<1>7. ASSUME NEW n \in Nick, OtherQuits(n) PROVE ServerInv'
  <2>1. others' = others \ {n} /\ Leave(n, Chan) /\ me' = me
    BY <1>7 DEF OtherQuits, Event
  <2>2. ASSUME NEW c \in Chan
        PROVE  members'[c] = members[c] \ {n} /\ granted'[c] = {g \in granted[c] : g[1] # n}
    BY <2>1 DEF Leave
  <2> QED BY <1>0, <2>1, <2>2 DEF ServerInv
<1>8. ASSUME NEW old \in Nick, NEW new \in Nick, OtherRenames(old, new) PROVE ServerInv'
  <2>1. /\ others' = Renamed(others, old, new) /\ Rename(old, new) /\ me' = me
        /\ old \in others
    BY <1>8 DEF OtherRenames, Event
  <2>2. ASSUME NEW c \in Chan PROVE members'[c] \subseteq others' \cup {me'}
    <3>1. members'[c] = Renamed(members[c], old, new)
      BY <1>2, <2>1
    <3> QED BY <1>0, <2>1, <3>1 DEF Renamed
  <2> QED BY <1>2, <2>1, <2>2 DEF ServerInv
<1>9. ASSUME NEW n \in Nick, NEW c \in Chan, OtherJoins(n, c) PROVE ServerInv'
  <2>1. /\ others' = others \cup {n} /\ UNCHANGED granted /\ me' = me
        /\ members' = [members EXCEPT ![c] = @ \cup {n}]
    BY <1>9 DEF OtherJoins, Event
  <2>2. \A d \in Chan : members'[d] = members[d] \/ members'[d] = members[d] \cup {n}
    BY <2>1 DEF TypeOK
  <2> QED BY <1>0, <2>1, <2>2 DEF ServerInv
<1>10. ASSUME NEW n \in Nick, NEW c \in Chan, OtherParts(n, c) \/ Kicks(n, c) PROVE ServerInv'
  <2>1. Leave(n, {c}) /\ others' = others /\ me' = me
    BY <1>10 DEF OtherParts, Kicks, Event
  <2> QED BY <1>1, <2>1
<1>11. ASSUME NEW n \in Nick, NEW c \in Chan, NEW letter \in Letter, NEW adding \in BOOLEAN,
              SetsMode(adding, letter, n, c)
       PROVE  ServerInv'
  <2>1. /\ UNCHANGED <<others, members>> /\ me' = me /\ n \in members[c]
        /\ granted' = [granted EXCEPT ![c] = IF adding THEN @ \cup {<<n, letter>>}
                                             ELSE @ \ {<<n, letter>>}]
    BY <1>11 DEF SetsMode, Event
  <2>2. ASSUME NEW d \in Chan PROVE granted'[d] \subseteq members[d] \X Letter
    <3>1. CASE d = c
      <4>1. granted'[c] = IF adding THEN granted[c] \cup {<<n, letter>>}
                          ELSE granted[c] \ {<<n, letter>>}
        BY <2>1 DEF TypeOK
      <4>2. <<n, letter>> \in members[c] \X Letter
        BY <2>1
      <4> QED BY <1>0, <3>1, <4>1, <4>2
    <3>2. CASE d # c
      <4>1. granted'[d] = granted[d]
        BY <2>1, <3>2 DEF TypeOK
      <4> QED BY <1>0, <4>1
    <3> QED BY <3>1, <3>2
  <2> QED BY <2>1, <2>2 DEF ServerInv
<1>12. Others => \/ \E n \in Nick : OtherQuits(n)
                 \/ \E n, m \in Nick : OtherRenames(n, m)
                 \/ \E n \in Nick, c \in Chan : OtherJoins(n, c) \/ OtherParts(n, c) \/ Kicks(n, c)
                 \/ \E n \in Nick, c \in Chan, letter \in Letter, adding \in BOOLEAN :
                       SetsMode(adding, letter, n, c)
  BY DEF Others
<1> QED BY <1>3, <1>4, <1>5, <1>6, <1>7, <1>8, <1>9, <1>10, <1>11, <1>12 DEF Server

LEMMA ServerInvStays ==
    ASSUME TypeOK, ServerInv, UNCHANGED <<members, granted>>,
           \/ UNCHANGED <<me, others>>
           \/ me' = NoNick /\ others' = others \cup ({me} \ {NoNick})
    PROVE  ServerInv'
<1>1. \A c \in Chan : members[c] \in SUBSET Nick
  BY DEF TypeOK
<1> QED BY <1>1, NickAssumption DEF ServerInv

LEMMA PlaceInvKept == ASSUME TypeOK, PlaceInv, Next PROVE PlaceInv'
<1> DEFINE Quiet == \/ client = Idle
                    \/ (client.command # "none" /\ \E c \in Chan : client.channel = {c})
<1>1. ASSUME UNCHANGED <<phase, link>>, link # "up" => UNCHANGED <<me, out, wire>>,
             UNCHANGED reconcile, Quiet'
      PROVE  PlaceInv'
  BY <1>1 DEF PlaceInv
<1>2. client.channel # {} => client.command # "none" /\ \E c \in Chan : client.channel = {c}
  BY DEF PlaceInv, Idle
<1>3. ASSUME NEW kind \in {"JOIN", "PART", "474"}, NEW c, Overtakes(kind, c) PROVE Quiet'
  <2>1. CASE client' = client
    BY <2>1 DEF PlaceInv
  <2>2. CASE c \in client.channel /\ client' = [client EXCEPT !.passed =
                (client.command = "JOIN") # (kind = "JOIN")]
    <3>1. client \in [command : {"none", "JOIN", "PART"}, channel : SUBSET Chan, passed : BOOLEAN]
      BY DEF TypeOK
    <3>2. client'.command = client.command /\ client'.channel = client.channel
      BY <2>2, <3>1
    <3> QED BY <1>2, <2>2, <3>2
  <2> QED BY <1>3, <2>1, <2>2 DEF Overtakes
<1>4. ASSUME NEW there \in {"down", "invalid"}, GiveUp(there) PROVE PlaceInv'
  <2>1. reconcile'.registered = FALSE
    BY <1>4 DEF GiveUp, TypeOK
  <2> QED BY <1>4, <2>1 DEF GiveUp, PlaceInv
<1>5. ASSUME Server PROVE PlaceInv'
  <2>1. link = "up" /\ UNCHANGED <<phase, link, clientVars>>
    BY <1>5 DEF Server, TakesNick, TakesJoin, TakesPart, TakesPing, Takes
  <2> QED BY <1>1, <2>1 DEF clientVars, PlaceInv
<1>6. ASSUME Others PROVE PlaceInv'
  <2>1. PICK kind, cs, line : Event(kind) /\ Told(cs, line)
    BY <1>6 DEF Others, OtherQuits, OtherRenames, OtherJoins, OtherParts, Kicks, SetsMode
  <2>2. UNCHANGED <<phase, link, clientVars, me, out>> /\ (link # "up" => wire' = wire)
    BY <2>1 DEF Event, Told, Heard
  <2> QED BY <1>1, <2>2 DEF clientVars, PlaceInv
<1>7. ASSUME NEW how \in {"closed", "silent"}, Breaks(how) PROVE PlaceInv'
  BY <1>7 DEF Breaks, PlaceInv, clientVars
<1>8. ASSUME Supervisor PROVE PlaceInv'
  <2>1. ASSUME Register PROVE PlaceInv'
    BY <2>1 DEF Register, PlaceInv, clientVars, serverVars
  <2>2. ASSUME Fallback PROVE PlaceInv'
    BY <2>2, <1>1 DEF Fallback, PlaceInv, clientVars, serverVars, Reads, Sent
  <2>3. ASSUME Rejoin PROVE PlaceInv'
    <3>1. client' = [client EXCEPT !.passed = client.channel # {}]
      BY <2>3 DEF Rejoin
    <3>2. client \in [command : {"none", "JOIN", "PART"}, channel : SUBSET Chan, passed : BOOLEAN]
      BY DEF TypeOK
    <3>3. client'.command = client.command /\ client'.channel = client.channel
      BY <3>1, <3>2
    <3>4. client.channel = {} => client = Idle
      BY DEF PlaceInv
    <3>5. client.channel = {} => client' = Idle
      <4>1. ASSUME NEW r \in [command : {"none", "JOIN", "PART"}, channel : SUBSET Chan,
                              passed : BOOLEAN],
                   r.command = "none", r.channel = {}, r.passed = FALSE
            PROVE  r = Idle
        BY <4>1 DEF Idle
      <4>2. ASSUME client.channel = {} PROVE client'.command = "none" /\ client'.passed = FALSE
        BY <3>1, <3>2, <3>3, <3>4, <4>2 DEF Idle
      <4>3. client' \in [command : {"none", "JOIN", "PART"}, channel : SUBSET Chan,
                         passed : BOOLEAN]
        BY <3>1, <3>2
      <4> QED BY <3>3, <4>1, <4>2, <4>3
    <3>6. Quiet'
      BY <1>2, <3>3, <3>5
    <3>7. phase = "registering" /\ phase' = "rejoined" /\ UNCHANGED <<link, me, reconcile>>
      BY <2>3 DEF Rejoin, serverVars
    <3> QED BY <3>6, <3>7 DEF PlaceInv
  <2>4. ASSUME Registered PROVE PlaceInv'
    BY <2>4 DEF Registered, PlaceInv, clientVars, serverVars, netVars
  <2> QED BY <1>4, <1>8, <2>1, <2>2, <2>3, <2>4 DEF Supervisor, Exhausted, Fails
<1>9. ASSUME Dispatcher PROVE PlaceInv'
  <2>1. phase = "on" /\ UNCHANGED <<phase, link, out, me, reconcile>> /\ wire # <<>>
    BY <1>9 DEF Dispatcher, handleJoin, handlePart, handleQuit, handleKick, handleNickChange,
                handleMode, OnNamesReply, OnNamesEnd, handleJoinFailure, Ack, Refused, Dispatch,
                Reads, serverVars
  <2>2. UNCHANGED client \/ \E kind \in {"JOIN", "PART", "474"}, c \in {wire[1][2], wire[1][3]} :
                               Overtakes(kind, c)
    BY <1>9 DEF Dispatcher, handleJoin, handlePart, handleQuit, handleKick, handleNickChange,
                handleMode, OnNamesReply, OnNamesEnd, handleJoinFailure, Ack, Refused
  <2>3. Quiet'
    BY <1>3, <2>2 DEF PlaceInv
  <2> QED BY <2>1, <2>3 DEF PlaceInv
<1>10. ASSUME ReclaimTick \/ Reclaim \/ Ping PROVE PlaceInv'
  BY <1>1, <1>10 DEF ReclaimTick, Reclaim, Ping, netVars, serverVars, clientVars, PlaceInv, Sent
<1>11. ASSUME Asked PROVE PlaceInv'
  <2>1. ASSUME NEW c \in Chan, NEW kind \in {"JOIN", "PART"}, Forwards(kind, c) PROVE PlaceInv'
    BY <1>1, <2>1 DEF Forwards, Command, serverVars, Sent
  <2>2. ASSUME NEW c \in Chan, NEW kind \in {"JOIN", "PART"}, Detached(kind, c) PROVE PlaceInv'
    BY <1>1, <2>2 DEF Detached, Command, serverVars, clientVars, PlaceInv
  <2>3. ASSUME NEW command, SendRaw(command) PROVE PlaceInv'
    BY <1>1, <2>3 DEF SendRaw, Command, serverVars, clientVars, PlaceInv, Sent
  <2>4. ASSUME NEW n \in Nick, DetachedNick(n) PROVE PlaceInv'
    BY <1>1, <2>4 DEF DetachedNick, Command, serverVars, clientVars, PlaceInv
  <2>5. ASSUME NEW n \in Nick, ApplyNick(n) PROVE PlaceInv'
    BY <2>5 DEF ApplyNick, Command, serverVars, clientVars, PlaceInv, Sent
  <2>6. ASSUME NEW desired, ReconcileChannels(desired) PROVE PlaceInv'
    BY <2>6 DEF ReconcileChannels, Command, serverVars, PlaceInv
  <2> QED BY <1>11, <2>1, <2>2, <2>3, <2>4, <2>5, <2>6 DEF Asked
<1>12. ASSUME Records PROVE PlaceInv'
  BY <1>1, <1>12 DEF Records, serverVars, netVars, PlaceInv
<1>13. ASSUME Reconciles PROVE PlaceInv'
  <2>1. /\ reconcile'.registered = FALSE
        /\ UNCHANGED <<link, wire, me, phase, client>>
        /\ link # "up" => out' = out
    BY <1>13 DEF Reconciles, serverVars, Sent
  <2> QED BY <2>1 DEF PlaceInv
<1>14. ASSUME PongTimeout PROVE PlaceInv'
  BY <1>4, <1>14 DEF PongTimeout
<1> QED BY <1>5, <1>6, <1>7, <1>8, <1>9, <1>10, <1>11, <1>12, <1>13, <1>14 DEF Next
-----------------------------------------------------------------------------
(* What the server does, as a session sees it.                             *)

LEMMA TwoWorlds ==
    ASSUME TypeOK, TypeOK'
    PROVE  \E w \in World, v \in World :
              /\ w = Now /\ v = Now' /\ w.me = me /\ v.me = me' /\ In(w) = Here /\ In(v) = Here'
              /\ \A c \in Chan :
                    /\ w.members[c] = (IF c \in Here THEN members[c] ELSE {})
                    /\ w.granted[c] = (IF c \in Here THEN granted[c] ELSE {})
                    /\ v.members[c] = (IF c \in Here' THEN members'[c] ELSE {})
                    /\ v.granted[c] = (IF c \in Here' THEN granted'[c] ELSE {})
BY NowFacts, NowFactsNext

LEMMA Taking ==
    ASSUME NEW command, Takes(command)
    PROVE  /\ link = "up" /\ link' = "up" /\ out # <<>> /\ out[1][1] = command
           /\ out' = Tail(out) /\ Untouched
BY DEF Takes, Untouched, nickVars, clientVars

LEMMA TakesAndSays ==
    ASSUME TypeOK, TypeOK', ViewInv, NEW command, Takes(command),
           NEW line \in Said, wire' = Heard(<<line>>), Step(Now, line, Now'),
           line[1] # "353", \A c \in Chan : line # <<"JOIN", me, c>>,
           phase \in {"rejoined", "on"} => \A c \in Chan : ~Decides(Now, line, c) =>
              /\ out[1] = <<"JOIN", c>> => c \in Here
              /\ out[1] = <<"PART", c>> => c \notin Here
    PROVE  ViewInv'
<1>1. /\ link = "up" /\ link' = "up" /\ out # <<>> /\ out' = Tail(out) /\ Untouched
  BY Taking
<1>2. PICK w \in World, v \in World : w = Now /\ v = Now' /\ In(w) = Here /\ In(v) = Here'
  BY TwoWorlds
<1>3. ASSUME phase \in {"rejoined", "on"}, NEW c \in Chan, ~Decides(Now, line, c),
             NEW want \in BOOLEAN, Fits(want, c)
      PROVE  Fits(want, c)'
  <2>1. c \in In(w) <=> c \in In(v)
    BY <1>2, <1>3, OthersLeaveUsIn
  <2>2. c \in Here' <=> c \in Here
    BY <1>2, <2>1
  <2> QED BY <1>1, <1>3, <2>2, AsksOn
<1> QED BY <1>1, <1>3, SaysOne

LEMMA TakesSilently ==
    ASSUME TypeOK, TypeOK', ViewInv, NEW command, Takes(command), wire' = wire, Now' = Now,
           phase \in {"rejoined", "on"} => \A c \in Chan :
              /\ out[1] = <<"JOIN", c>> => c \in Here
              /\ out[1] = <<"PART", c>> => c \notin Here
    PROVE  ViewInv'
<1>1. /\ link = "up" /\ link' = "up" /\ out # <<>> /\ out' = Tail(out) /\ Untouched
  BY Taking
<1>2. PICK w \in World, v \in World : w = Now /\ v = Now' /\ In(w) = Here /\ In(v) = Here'
  BY TwoWorlds
<1>3. ASSUME phase \in {"rejoined", "on"}, NEW c \in Chan, NEW want \in BOOLEAN, Fits(want, c)
      PROVE  Fits(want, c)'
  <2>1. c \in Here' <=> c \in Here
    BY <1>2
  <2> QED BY <1>1, <1>3, <2>1, AsksOn
<1> QED BY <1>1, <1>3, SaysNothing

LEMMA NewName ==
    ASSUME TypeOK, TypeOK', ServerInv, NEW old \in Nick, NEW new \in Nick, old # new,
           new \notin others, new # me, Rename(old, new),
           me' = IF old = me THEN new ELSE me
    PROVE  Renames(Now, <<"NICK", old, new>>, Now')
<1>1. PICK w \in World, v \in World :
         /\ w = Now /\ v = Now' /\ w.me = me /\ v.me = me' /\ In(w) = Here /\ In(v) = Here'
         /\ \A c \in Chan :
               /\ w.members[c] = (IF c \in Here THEN members[c] ELSE {})
               /\ w.granted[c] = (IF c \in Here THEN granted[c] ELSE {})
               /\ v.members[c] = (IF c \in Here' THEN members'[c] ELSE {})
               /\ v.granted[c] = (IF c \in Here' THEN granted'[c] ELSE {})
  BY TwoWorlds
<1>2. \A c \in Chan : new \notin members[c]
  BY DEF ServerInv
<1>3. \A c \in Chan : /\ members'[c] = Renamed(members[c], old, new)
                      /\ granted'[c] = RenamedModes(granted[c], old, new)
  BY DEF Rename
<1>4. \A c \in Chan : c \in Here' <=> c \in Here
  <2>1. \A c \in Chan : /\ c \in Here <=> me \in members[c]
                        /\ c \in Here' <=> me' \in members'[c]
    BY DEF Here
  <2>2. CASE old = me
    <3>1. me' = new
      BY <2>2
    <3> QED BY <1>2, <1>3, <2>1, <2>2, <3>1 DEF Renamed
  <2>3. CASE old # me
    <3>1. me' = me
      BY <2>3
    <3> QED BY <1>2, <1>3, <2>1, <2>3, <3>1 DEF Renamed
  <2> QED BY <2>2, <2>3
<1>5. Renamed({}, old, new) = {} /\ RenamedModes({}, old, new) = {}
  BY DEF Renamed, RenamedModes
<1>6. \A c \in Chan : /\ v.members[c] = Renamed(w.members[c], old, new)
                      /\ v.granted[c] = RenamedModes(w.granted[c], old, new)
  BY <1>1, <1>3, <1>4, <1>5
<1>7. Renames(w, <<"NICK", old, new>>, v)
  BY <1>1, <1>2, <1>6 DEF Renames
<1> QED BY <1>1, <1>7

LEMMA ServerKeepsViews == ASSUME SessionInv, TypeOK', Server PROVE ViewInv'
<1> USE DEF SessionInv
<1>0. /\ phase \in {"rejoined", "on"} /\ link = "up" => me \in Nick
      /\ NoNick \notin Nick /\ me \in Nick \cup {NoNick}
  BY SessionsHaveNicks, NickAssumption DEF TypeOK
<1>a. PICK w \in World, v \in World :
         /\ w = Now /\ v = Now' /\ w.me = me /\ v.me = me' /\ In(w) = Here /\ In(v) = Here'
         /\ \A c \in Chan :
               /\ w.members[c] = (IF c \in Here THEN members[c] ELSE {})
               /\ w.granted[c] = (IF c \in Here THEN granted[c] ELSE {})
               /\ v.members[c] = (IF c \in Here' THEN members'[c] ELSE {})
               /\ v.granted[c] = (IF c \in Here' THEN granted'[c] ELSE {})
  BY TwoWorlds
<1>b. UNCHANGED serverVars => Now' = Now
  BY NowSame DEF serverVars
<1>1. ASSUME TakesNick PROVE ViewInv'
  <2> DEFINE new == out[1][2]
  <2>1. Takes("NICK") /\ new \in Nick /\ out[1][1] = "NICK" /\ link = "up"
    BY <1>1, Taking, Taken DEF TakesNick
  <2>2. \A c \in Chan : out[1] # <<"JOIN", c>> /\ out[1] # <<"PART", c>>
    BY <2>1
  <2>3. CASE new \in others /\ wire' = Heard(<<<<"433">>>>) /\ UNCHANGED serverVars
    <3>1. <<"433">> \in Said
      BY LinesSaid
    <3>2. Step(Now, <<"433">>, Now')
      BY <1>b, <2>3 DEF Step, Tells
    <3> QED BY <2>1, <2>2, <2>3, <3>1, <3>2, TakesAndSays
  <2>4. CASE /\ new \notin others /\ me = NoNick
             /\ me' = new /\ wire' = Heard(<<<<"001", new>>>>)
             /\ UNCHANGED <<others, members, granted>>
    <3>1. <<"001", new>> \in Said
      BY <2>1, LinesSaid
    <3>2. \A c \in Chan : new \notin members'[c]
      BY <1>0, <2>1, <2>4 DEF ServerInv
    <3>3. In(v) = {}
      BY <1>a, <2>4, <3>2 DEF Here
    <3>4. Welcomes(w, <<"001", new>>, v)
      BY <1>a, <2>1, <2>4, <3>3 DEF Welcomes
    <3>5. Step(Now, <<"001", new>>, Now')
      BY <1>a, <3>4 DEF Step
    <3> QED BY <2>1, <2>2, <2>4, <3>1, <3>5, TakesAndSays
  <2>5. CASE /\ new \notin others /\ me # NoNick /\ new # me
             /\ me' = new /\ Rename(me, new)
             /\ wire' = Heard(<<<<"NICK", me, new>>>>)
             /\ UNCHANGED others
    <3>1. <<"NICK", me, new>> \in Said
      BY <1>0, <2>1, <2>5, LinesSaid
    <3>2. Renames(Now, <<"NICK", me, new>>, Now')
      BY <1>0, <2>1, <2>5, NewName
    <3>3. Step(Now, <<"NICK", me, new>>, Now')
      BY <3>2 DEF Step
    <3> QED BY <2>1, <2>2, <2>5, <3>1, <3>3, TakesAndSays
  <2>6. CASE /\ new = me /\ me' = new /\ Rename(me, new) /\ wire' = Heard(<<>>)
             /\ UNCHANGED others
    <3>1. wire' = wire
      BY <2>6 DEF Heard, TypeOK
    <3>2. ASSUME NEW c \in Chan PROVE members'[c] = members[c] /\ granted'[c] = granted[c]
      <4>1. members'[c] = Renamed(members[c], me, me)
        BY <2>6 DEF Rename
      <4>2. granted'[c] = RenamedModes(granted[c], me, me)
        BY <2>6 DEF Rename
      <4>3. \A g \in granted[c] : g = <<g[1], g[2]>>
        BY DEF TypeOK
      <4>4. \A g \in granted[c] : (IF g[1] = me THEN <<me, g[2]>> ELSE g) = g
        BY <4>3
      <4>5. RenamedModes(granted[c], me, me) = granted[c]
        BY <4>4 DEF RenamedModes
      <4> QED BY <4>1, <4>2, <4>5 DEF Renamed
    <3>3. Now' = Now
      BY <2>6, <3>2, NowSame
    <3> QED BY <2>1, <2>2, <3>1, <3>3, TakesSilently
  <2> QED BY <1>1, <2>3, <2>4, <2>5, <2>6 DEF TakesNick
<1>2. ASSUME TakesJoin PROVE ViewInv'
  <2> DEFINE c == out[1][2]
  <2>1. Takes("JOIN") /\ c \in Chan /\ out[1] = <<"JOIN", c>> /\ link = "up"
    BY <1>2, Taking, Taken DEF TakesJoin
  <2>2. \A d \in Chan : out[1] # <<"PART", d>> /\ (out[1] = <<"JOIN", d>> => d = c)
    BY <2>1
  <2> HIDE DEF c
  <2>3. CASE me = NoNick /\ wire' = Heard(<<<<"451">>>>) /\ UNCHANGED serverVars
    <3>1. <<"451">> \in Said
      BY LinesSaid
    <3>2. Step(Now, <<"451">>, Now')
      BY <1>b, <2>3 DEF Step, Tells
    <3>3. phase \notin {"rejoined", "on"}
      BY <1>0, <2>1, <2>3
    <3> QED BY <2>1, <2>3, <3>1, <3>2, <3>3, TakesAndSays
  <2>4. CASE me \notin members[c] /\ wire' = Heard(<<<<"474", c>>>>) /\ UNCHANGED serverVars
    <3>1. <<"474", c>> \in Said
      BY <2>1, LinesSaid
    <3>2. c \notin In(w)
      BY <1>a, <2>4 DEF Here
    <3>3. Bars(w, <<"474", c>>, v)
      BY <1>a, <1>b, <2>1, <2>4, <3>2 DEF Bars
    <3>4. Step(Now, <<"474", c>>, Now')
      BY <1>a, <3>3 DEF Step
    <3>5. Decides(Now, <<"474", c>>, c)
      BY DEF Decides
    <3> QED BY <2>1, <2>2, <2>4, <3>1, <3>4, <3>5, TakesAndSays
  <2>5. CASE /\ me # NoNick /\ me \notin members[c]
             /\ members' = [members EXCEPT ![c] = @ \cup {me}]
             /\ wire' = Heard(<<<<"JOIN", me, c>>,
                                <<"353", c, [n \in members[c] \cup {me} |-> Shown(c, n)]>>,
                                <<"366", c>>>>)
             /\ UNCHANGED <<me, others, granted>>
    <3> DEFINE listed == [n \in members[c] \cup {me} |-> Shown(c, n)]
               ls == <<<<"JOIN", me, c>>, <<"353", c, listed>>, <<"366", c>>>>
    <3>1. members'[c] = members[c] \cup {me} /\ \A d \in Chan \ {c} : members'[d] = members[d]
      BY <2>1, <2>5 DEF TypeOK
    <3>2. c \notin Here /\ Here' = Here \cup {c}
      BY <2>1, <2>5, <3>1 DEF Here
    <3>3. SameBut(w, v, c)
      BY <1>a, <2>5, <3>1, <3>2 DEF SameBut, SameChannel
    <3>4. me \in Nick /\ w.me = me
      BY <1>0, <1>a, <2>5
    <3>5. Joins(w, <<"JOIN", w.me, c>>, v)
      BY <1>a, <2>1, <3>2, <3>3, <3>4 DEF Joins
    <3>6. listed \in Listing
      <4>1. members[c] \cup {me} \in SUBSET Nick
        BY <2>1, <3>4 DEF TypeOK
      <4> QED BY <2>1, <4>1, ShownTypes
    <3>7. v.members[c] = members[c] \cup {me} /\ v.granted[c] = granted[c]
      BY <1>a, <2>1, <2>5, <3>1, <3>2
    <3>8. Faithful(c, listed, v)
      <4>1. \A n \in members[c] \cup {me} : listed[n] = Shown(c, n) /\ Shown(c, n) \in Prefix
        BY DEF Shown, Prefix
      <4>2. DOMAIN listed = members[c] \cup {me}
        OBVIOUS
      <4>3. \A n \in members[c] \cup {me} :
               /\ Shown(c, n) = "~" => <<n, "q">> \in granted[c]
               /\ Shown(c, n) = "@" => <<n, "o">> \in granted[c]
        BY DEF Shown
      <4>4. listed \in [v.members[c] -> Prefix]
        BY <3>7, <4>1
      <4> HIDE DEF listed
      <4> QED BY <3>7, <4>1, <4>3, <4>4 DEF Faithful
    <3> HIDE DEF listed
    <3>9. PICK V : /\ Chain(V, ls) /\ V[0] = w /\ V[Len(ls)] = v
                   /\ ~Undecided(V, ls, 0, c)
                   /\ \A d \in Chan \ {c} : Undecided(V, ls, 0, d)
      BY <2>1, <3>4, <3>5, <3>6, <3>8, ChainOfBurst
    <3>10. wire' = wire \o ls /\ link' = "up" /\ out # <<>> /\ out' = Tail(out) /\ Untouched
      BY <2>1, <2>5, Taking DEF Heard, listed
    <3>11. ASSUME NEW d \in Chan, d # c, NEW want \in BOOLEAN, Fits(want, d) PROVE Fits(want, d)'
      BY <2>2, <3>2, <3>10, <3>11, AsksOn
    <3> HIDE DEF ls
    <3> QED BY <1>a, <2>1, <3>9, <3>10, <3>11, Says
  <2>6. CASE me \in members[c] /\ UNCHANGED <<wire, serverVars>>
    <3>1. c \in Here
      BY <2>1, <2>6 DEF Here
    <3> QED BY <1>b, <2>1, <2>2, <2>6, <3>1, TakesSilently
  <2> QED BY <1>2, <2>3, <2>4, <2>5, <2>6 DEF TakesJoin, c
<1>3. ASSUME TakesPart PROVE ViewInv'
  <2> DEFINE c == out[1][2]
  <2>1. Takes("PART") /\ c \in Chan /\ out[1] = <<"PART", c>> /\ link = "up"
    BY <1>3, Taking, Taken DEF TakesPart
  <2>2. \A d \in Chan : out[1] # <<"JOIN", d>> /\ (out[1] = <<"PART", d>> => d = c)
    BY <2>1
  <2> HIDE DEF c
  <2>3. CASE me = NoNick /\ wire' = Heard(<<<<"451">>>>) /\ UNCHANGED serverVars
    <3>1. <<"451">> \in Said
      BY LinesSaid
    <3>2. Step(Now, <<"451">>, Now')
      BY <1>b, <2>3 DEF Step, Tells
    <3>3. phase \notin {"rejoined", "on"}
      BY <1>0, <2>1, <2>3
    <3> QED BY <2>1, <2>3, <3>1, <3>2, <3>3, TakesAndSays
  <2>4. CASE /\ me # NoNick /\ me \in members[c]
             /\ Leave(me, {c}) /\ wire' = Heard(<<<<"PART", me, c>>>>)
             /\ UNCHANGED <<me, others>>
    <3>1. me \in Nick /\ w.me = me
      BY <1>0, <1>a, <2>4
    <3>2. <<"PART", me, c>> \in Said
      BY <2>1, <3>1, LinesSaid
    <3>3. /\ members'[c] = members[c] \ {me}
          /\ \A d \in Chan \ {c} : members'[d] = members[d] /\ granted'[d] = granted[d]
      BY <2>1, <2>4 DEF Leave
    <3>4. c \in Here /\ Here' = Here \ {c}
      BY <2>1, <2>4, <3>3 DEF Here
    <3>5. Parts(w, <<"PART", me, c>>, v)
      <4>1. SameBut(w, v, c)
        BY <1>a, <2>4, <3>3, <3>4 DEF SameBut, SameChannel
      <4>2. v.members[c] = {} /\ v.granted[c] = {} /\ me \in w.members[c]
        BY <1>a, <2>1, <2>4, <3>4
      <4> QED BY <1>a, <2>1, <3>1, <3>4, <4>1, <4>2 DEF Parts
    <3>6. Step(Now, <<"PART", me, c>>, Now')
      BY <1>a, <3>5 DEF Step
    <3>7. Decides(Now, <<"PART", me, c>>, c)
      BY <1>a DEF Decides
    <3> QED BY <2>1, <2>2, <2>4, <3>2, <3>6, <3>7, TakesAndSays
  <2>5. CASE me \notin members[c] /\ UNCHANGED <<wire, serverVars>>
    <3>1. c \notin Here
      BY <2>5 DEF Here
    <3> QED BY <1>b, <2>1, <2>2, <2>5, <3>1, TakesSilently
  <2> QED BY <1>3, <2>3, <2>4, <2>5 DEF TakesPart, c
<1>4. ASSUME TakesPing PROVE ViewInv'
  <2>1. /\ Takes("PING") /\ wire' = Heard(<<<<"PONG", out[1][2]>>>>) /\ UNCHANGED serverVars
        /\ out[1][1] = "PING" /\ out[1][2] \in Token
    BY <1>4, Taking, Taken DEF TakesPing
  <2>2. <<"PONG", out[1][2]>> \in Said
    BY <2>1, LinesSaid
  <2>3. Step(Now, <<"PONG", out[1][2]>>, Now')
    BY <1>b, <2>1 DEF Step, Tells
  <2>4. \A c \in Chan : out[1] # <<"JOIN", c>> /\ out[1] # <<"PART", c>>
    BY <2>1
  <2> QED BY <2>1, <2>2, <2>3, <2>4, TakesAndSays
<1> QED BY <1>1, <1>2, <1>3, <1>4 DEF Server

(* Others do something that we share, or that we do not.                   *)
LEMMA ToldOfOthers ==
    ASSUME SessionInv, TypeOK', NEW kind, Event(kind), NEW cs, NEW line \in Said, Told(cs, line),
           line[1] # "353", \A c \in Chan : line # <<"JOIN", me, c>>,
           link = "up" /\ cs \cap Here # {} => Step(Now, line, Now'),
           link = "up" /\ cs \cap Here = {} => Now' = Now
    PROVE  ViewInv'
<1> USE DEF SessionInv
<1>1. link' = link /\ out' = out /\ Untouched
  BY DEF Event, Untouched, nickVars, clientVars
<1>2. PICK w \in World, v \in World : w = Now /\ v = Now' /\ In(w) = Here /\ In(v) = Here'
  BY TwoWorlds
<1>3. CASE link = "up" /\ cs \cap Here # {}
  <2>1. wire' = Heard(<<line>>) /\ Step(Now, line, Now')
    BY <1>3 DEF Told
  <2>2. ASSUME NEW c \in Chan, ~Decides(Now, line, c), NEW want \in BOOLEAN, Fits(want, c)
        PROVE  Fits(want, c)'
    <3>1. c \in In(w) <=> c \in In(v)
      BY <1>2, <2>1, <2>2, OthersLeaveUsIn
    <3>2. c \in Here' <=> c \in Here
      BY <1>2, <3>1
    <3> QED BY <1>1, <2>2, <3>2 DEF Fits
  <2> QED BY <1>1, <1>3, <2>1, <2>2, SaysOne
<1>4. CASE link = "up" /\ cs \cap Here = {}
  <2>1. wire' = wire /\ Now' = Now
    BY <1>4 DEF Told, Heard, TypeOK
  <2>2. ASSUME NEW c \in Chan, NEW want \in BOOLEAN, Fits(want, c) PROVE Fits(want, c)'
    <3>1. c \in Here' <=> c \in Here
      BY <1>2, <2>1
    <3> QED BY <1>1, <2>2, <3>1 DEF Fits
  <2> QED BY <1>1, <1>4, <2>1, <2>2, SaysNothing
<1>5. CASE link # "up"
  <2>1. wire' = wire
    BY <1>5 DEF Told, Heard
  <2> QED BY <1>1, <1>5, <2>1, SaysNothing
<1> QED BY <1>3, <1>4, <1>5

LEMMA OthersKeepViews == ASSUME SessionInv, TypeOK', Others PROVE ViewInv'
<1> USE DEF SessionInv
<1>0. /\ \A c \in Chan : /\ members[c] \in SUBSET Nick /\ granted[c] \in SUBSET (Nick \X Letter)
                         /\ members[c] \subseteq others \cup {me}
                         /\ granted[c] \subseteq members[c] \X Letter
      /\ me \notin others /\ NoNick \notin Nick
  BY NickAssumption DEF TypeOK, ServerInv
<1>a. PICK w \in World, v \in World :
         /\ w = Now /\ v = Now' /\ w.me = me /\ v.me = me' /\ In(w) = Here /\ In(v) = Here'
         /\ \A c \in Chan :
               /\ w.members[c] = (IF c \in Here THEN members[c] ELSE {})
               /\ w.granted[c] = (IF c \in Here THEN granted[c] ELSE {})
               /\ v.members[c] = (IF c \in Here' THEN members'[c] ELSE {})
               /\ v.granted[c] = (IF c \in Here' THEN granted'[c] ELSE {})
  BY TwoWorlds
<1>b. \A c \in Chan : c \in Here <=> me \in members[c]
  BY DEF Here
<1>c. \A c \in Chan : c \in Here' <=> me' \in members'[c]
  BY DEF Here
<1>d. ASSUME NEW n, NEW c \in Chan, n \notin members[c]
      PROVE  members[c] \ {n} = members[c] /\ {g \in granted[c] : g[1] # n} = granted[c]
  <2>1. \A g \in granted[c] : g[1] \in members[c]
    BY <1>0
  <2> QED BY <1>d, <2>1
<1>1. ASSUME NEW n \in Nick, OtherQuits(n) PROVE ViewInv'
  <2> DEFINE cs == {c \in Chan : n \in members[c]}
  <2>1. Event("quit") /\ Leave(n, Chan) /\ Told(cs, <<"QUIT", n>>) /\ n # me /\ me' = me
    BY <1>0, <1>1 DEF OtherQuits, Event
  <2>2. \A c \in Chan : /\ members'[c] = members[c] \ {n}
                        /\ granted'[c] = {g \in granted[c] : g[1] # n}
    BY <2>1 DEF Leave
  <2>3. \A c \in Chan : c \in Here' <=> c \in Here
    BY <1>b, <1>c, <2>1, <2>2
  <2>4. \A c \in Chan : Left(w, v, n, c)
    BY <1>a, <2>2, <2>3 DEF Left
  <2>5. Quits(w, <<"QUIT", n>>, v)
    BY <1>a, <2>1, <2>4 DEF Quits
  <2>6. Step(Now, <<"QUIT", n>>, Now')
    BY <1>a, <2>5 DEF Step
  <2>7. cs \cap Here = {} => Now' = Now
    <3>1. ASSUME cs \cap Here = {}, NEW c \in Chan
          PROVE  \/ me \notin members[c] /\ me \notin members'[c]
                 \/ members'[c] = members[c] /\ granted'[c] = granted[c]
      <4>1. CASE c \in Here
        BY <1>d, <2>2, <3>1, <4>1
      <4>2. CASE c \notin Here
        BY <1>b, <2>2, <4>2
      <4> QED BY <4>1, <4>2
    <3> QED BY <2>1, <3>1, NowSame
  <2>8. <<"QUIT", n>> \in Said
    BY LinesSaid
  <2> HIDE DEF cs
  <2> QED BY <2>1, <2>6, <2>7, <2>8, ToldOfOthers
<1>2. ASSUME NEW old \in Nick, NEW new \in Nick, OtherRenames(old, new) PROVE ViewInv'
  <2> DEFINE cs == {c \in Chan : old \in members[c]}
  <2>1. /\ Event("nick") /\ Rename(old, new) /\ Told(cs, <<"NICK", old, new>>) /\ me' = me
        /\ old # me /\ old # new /\ new \notin others /\ new # me
    BY <1>0, <1>2 DEF OtherRenames, Event
  <2>2. Renames(Now, <<"NICK", old, new>>, Now')
    BY <2>1, NewName
  <2>3. Step(Now, <<"NICK", old, new>>, Now')
    BY <2>2 DEF Step
  <2>4. cs \cap Here = {} => Now' = Now
    <3>1. \A c \in Chan : /\ members'[c] = Renamed(members[c], old, new)
                          /\ granted'[c] = RenamedModes(granted[c], old, new)
      BY <2>1 DEF Rename
    <3>2. ASSUME NEW c \in Chan, old \notin members[c]
          PROVE  members'[c] = members[c] /\ granted'[c] = granted[c]
      <4>1. \A g \in granted[c] : g[1] # old
        BY <1>0, <3>2
      <4>2. RenamedModes(granted[c], old, new) = granted[c]
        BY <4>1 DEF RenamedModes
      <4> QED BY <3>1, <3>2, <4>2 DEF Renamed
    <3>3. ASSUME cs \cap Here = {}, NEW c \in Chan
          PROVE  \/ me \notin members[c] /\ me \notin members'[c]
                 \/ members'[c] = members[c] /\ granted'[c] = granted[c]
      <4>1. CASE c \in Here
        BY <3>2, <3>3, <4>1
      <4>2. CASE c \notin Here
        BY <1>b, <2>1, <3>1, <4>2 DEF Renamed
      <4> QED BY <4>1, <4>2
    <3> QED BY <2>1, <3>3, NowSame
  <2>5. <<"NICK", old, new>> \in Said
    BY LinesSaid
  <2> HIDE DEF cs
  <2> QED BY <2>1, <2>3, <2>4, <2>5, ToldOfOthers
<1>3. ASSUME NEW n \in Nick, NEW c \in Chan, OtherJoins(n, c) PROVE ViewInv'
  <2>1. /\ Event("join") /\ Told({c}, <<"JOIN", n, c>>) /\ n # me /\ me' = me
        /\ n \notin members[c] /\ members' = [members EXCEPT ![c] = @ \cup {n}]
        /\ granted' = granted
    BY <1>3 DEF OtherJoins, Event
  <2>2. members'[c] = members[c] \cup {n} /\ \A d \in Chan \ {c} : members'[d] = members[d]
    BY <2>1 DEF TypeOK
  <2>3. \A d \in Chan : d \in Here' <=> d \in Here
    BY <1>b, <1>c, <2>1, <2>2
  <2>4. c \in Here => Joins(w, <<"JOIN", n, c>>, v)
    <3>1. SameBut(w, v, c)
      BY <1>a, <2>1, <2>2, <2>3 DEF SameBut, SameChannel
    <3>2. c \in Here => v.members[c] = w.members[c] \cup {n} /\ v.granted[c] = w.granted[c]
      BY <1>a, <2>1, <2>2, <2>3
    <3> QED BY <1>a, <2>1, <3>1, <3>2 DEF Joins
  <2>5. c \in Here => Step(Now, <<"JOIN", n, c>>, Now')
    BY <1>a, <2>4 DEF Step
  <2>6. c \notin Here => Now' = Now
    <3>1. ASSUME c \notin Here, NEW d \in Chan
          PROVE  \/ me \notin members[d] /\ me \notin members'[d]
                 \/ members'[d] = members[d] /\ granted'[d] = granted[d]
      BY <1>b, <2>1, <2>2, <3>1
    <3> QED BY <2>1, <3>1, NowSame
  <2>7. <<"JOIN", n, c>> \in Said /\ \A d \in Chan : <<"JOIN", n, c>> # <<"JOIN", me, d>>
    BY <2>1, LinesSaid
  <2>8. ({c} \cap Here # {} => c \in Here) /\ ({c} \cap Here = {} => c \notin Here)
    OBVIOUS
  <2> QED BY <2>1, <2>5, <2>6, <2>7, <2>8, ToldOfOthers
<1>4. ASSUME NEW n \in Nick, NEW c \in Chan, NEW kind, Event(kind), NEW line,
             line \in {<<"PART", n, c>>, <<"KICK", n, c>>}, Told({c}, line),
             n \in members[c], Leave(n, {c}), others' = others
      PROVE  ViewInv'
  <2>1. me' = me
    BY <1>4 DEF Event
  <2>2. /\ members'[c] = members[c] \ {n} /\ granted'[c] = {g \in granted[c] : g[1] # n}
        /\ \A d \in Chan \ {c} : members'[d] = members[d] /\ granted'[d] = granted[d]
    BY <1>4 DEF Leave
  <2>3. \A d \in Chan : d \in Here' <=> d \in Here /\ ~(d = c /\ n = me)
    BY <1>b, <1>c, <2>1, <2>2
  <2>4. SameBut(w, v, c)
    BY <1>a, <2>1, <2>2, <2>3 DEF SameBut, SameChannel
  <2>5. c \in Here => Parts(w, line, v)
    <3>1. CASE n = me
      <4>1. v.members[c] = {} /\ v.granted[c] = {}
        BY <1>a, <2>3, <3>1
      <4> QED BY <1>4, <1>a, <2>4, <3>1, <4>1 DEF Parts
    <3>2. CASE n # me
      <4>1. c \in Here => Left(w, v, n, c)
        BY <1>a, <2>2, <2>3, <3>2 DEF Left
      <4> QED BY <1>4, <1>a, <2>4, <3>2, <4>1 DEF Parts
    <3> QED BY <3>1, <3>2
  <2>6. c \in Here => Step(Now, line, Now')
    BY <1>a, <2>5 DEF Step
  <2>7. c \notin Here => Now' = Now
    <3>1. ASSUME c \notin Here, NEW d \in Chan
          PROVE  \/ me \notin members[d] /\ me \notin members'[d]
                 \/ members'[d] = members[d] /\ granted'[d] = granted[d]
      BY <1>b, <2>1, <2>2, <3>1
    <3> QED BY <2>1, <3>1, NowSame
  <2>a. <<"PART", n, c>> \in Said /\ <<"KICK", n, c>> \in Said
    BY LinesSaid
  <2>8. line \in Said /\ line[1] \in {"PART", "KICK"}
    BY <1>4, <2>a
  <2>9. line[1] # "353" /\ \A d \in Chan : line # <<"JOIN", me, d>>
    BY <2>8
  <2>10. ({c} \cap Here # {} => c \in Here) /\ ({c} \cap Here = {} => c \notin Here)
    OBVIOUS
  <2> QED BY <1>4, <2>6, <2>7, <2>8, <2>9, <2>10, ToldOfOthers
<1>5. ASSUME NEW n \in Nick, NEW c \in Chan, NEW letter \in Letter, NEW adding \in BOOLEAN,
             SetsMode(adding, letter, n, c)
      PROVE  ViewInv'
  <2> DEFINE line == <<"MODE", adding, letter, n, c>>
  <2>1. /\ Event("mode") /\ Told({c}, line) /\ me' = me /\ members' = members
        /\ n \in members[c]
        /\ granted' = [granted EXCEPT ![c] = IF adding THEN @ \cup {<<n, letter>>}
                                             ELSE @ \ {<<n, letter>>}]
    BY <1>5 DEF SetsMode, Event
  <2>2. /\ granted'[c] = IF adding THEN granted[c] \cup {<<n, letter>>}
                         ELSE granted[c] \ {<<n, letter>>}
        /\ \A d \in Chan \ {c} : granted'[d] = granted[d]
    BY <2>1 DEF TypeOK
  <2>3. \A d \in Chan : d \in Here' <=> d \in Here
    BY <1>b, <1>c, <2>1
  <2>4. SameBut(w, v, c)
    BY <1>a, <2>1, <2>2, <2>3 DEF SameBut, SameChannel
  <2>5. c \in Here => Sets(w, line, v)
    <3>1. c \in Here => /\ v.members[c] = w.members[c] /\ n \in w.members[c]
                        /\ v.granted[c] = IF adding THEN w.granted[c] \cup {<<n, letter>>}
                                          ELSE w.granted[c] \ {<<n, letter>>}
      BY <1>a, <2>1, <2>2, <2>3
    <3> QED BY <1>a, <2>4, <3>1 DEF Sets
  <2>6. c \in Here => Step(Now, line, Now')
    BY <1>a, <2>5 DEF Step
  <2>7. c \notin Here => Now' = Now
    <3>1. ASSUME c \notin Here, NEW d \in Chan
          PROVE  \/ me \notin members[d] /\ me \notin members'[d]
                 \/ members'[d] = members[d] /\ granted'[d] = granted[d]
      BY <1>b, <2>1, <2>2, <3>1
    <3> QED BY <2>1, <3>1, NowSame
  <2>8. line \in Said /\ line[1] = "MODE"
    BY LinesSaid
  <2>9. line[1] # "353" /\ \A d \in Chan : line # <<"JOIN", me, d>>
    BY <2>8
  <2>10. ({c} \cap Here # {} => c \in Here) /\ ({c} \cap Here = {} => c \notin Here)
    OBVIOUS
  <2> HIDE DEF line
  <2> QED BY <2>1, <2>6, <2>7, <2>8, <2>9, <2>10, ToldOfOthers
<1>6. ASSUME NEW n \in Nick, NEW c \in Chan, OtherParts(n, c) PROVE ViewInv'
  BY <1>4, <1>6 DEF OtherParts
<1>7. ASSUME NEW n \in Nick, NEW c \in Chan, Kicks(n, c) PROVE ViewInv'
  BY <1>4, <1>7 DEF Kicks
<1>8. Others => \/ \E n \in Nick : OtherQuits(n)
                \/ \E n, m \in Nick : OtherRenames(n, m)
                \/ \E n \in Nick, c \in Chan : OtherJoins(n, c) \/ OtherParts(n, c) \/ Kicks(n, c)
                \/ \E n \in Nick, c \in Chan, letter \in Letter, adding \in BOOLEAN :
                      SetsMode(adding, letter, n, c)
  BY DEF Others
<1> QED BY <1>1, <1>2, <1>3, <1>5, <1>6, <1>7, <1>8

-----------------------------------------------------------------------------
(* The end of a connection, and the next one.                              *)

(* With an empty wire the connector is level with the server.              *)
LEMMA LevelWithServer ==
    ASSUME TypeOK', wire' = <<>>, phase' \notin {"rejoined", "on"},
           phase' = "registering" => me' = NoNick
    PROVE  \E W : WireInv(W)'
<1>1. PICK w \in World : w = Now' /\ w.me = me'
  BY NowFactsNext
<1>2. PICK W : W = [i \in 0..0 |-> w]
  OBVIOUS
<1>3. Chain(W, <<>>)
  BY <1>2, ChainOfNone
<1>4. W[0] = w /\ Len(<<>>) = 0
  BY <1>2
<1>5. Chain(W, wire') /\ W[Len(wire')] = Now' /\ W[0] = w
  BY <1>1, <1>3, <1>4
<1> QED BY <1>1, <1>5, WireInvNext

LEMMA GiveUpViews ==
    ASSUME TypeOK, TypeOK', CleanInv, NEW there \in {"down", "invalid"}, GiveUp(there)
    PROVE  ViewInv'
<1>1. /\ phase' = there /\ wire' = <<>> /\ UNCHANGED <<joined, names, complete>>
      /\ cutShort' = cutShort \cup {c \in joined \ complete : names[c] # Nobody}
  BY DEF GiveUp
<1>2. \E W : WireInv(W)'
  BY <1>1, LevelWithServer
<1>3. ASSUME NEW c \in Chan PROVE Clean(c)'
  BY <1>1 DEF CleanInv, Clean
<1> QED BY <1>2, <1>3 DEF ViewInv, CleanInv

LEMMA RegisterViews == ASSUME TypeOK, TypeOK', PlaceInv, CleanInv, Register PROVE ViewInv'
<1>1. /\ phase = "down" /\ phase' = "registering" /\ wire' = wire /\ me' = me
      /\ UNCHANGED <<joined, names, complete, cutShort>>
  BY DEF Register, serverVars, viewVars
<1>2. wire = <<>> /\ me = NoNick
  BY <1>1 DEF PlaceInv
<1>3. \E W : WireInv(W)'
  BY <1>1, <1>2, LevelWithServer
<1>4. ASSUME NEW c \in Chan PROVE Clean(c)'
  BY <1>1 DEF CleanInv, Clean
<1> QED BY <1>3, <1>4 DEF ViewInv, CleanInv

LEMMA BreaksViews ==
    ASSUME TypeOK, ViewInv, NEW how \in {"closed", "silent"}, Breaks(how)
    PROVE  ViewInv'
<1>1. link' = how /\ wire' = wire /\ Untouched
  BY DEF Breaks, Untouched, nickVars, clientVars
<1> QED BY <1>1, SaysNothing

LEMMA FirstViews == ASSUME Init PROVE SessionInv
<1>1. TypeOK
  <2>1. out = <<>> /\ wire = <<>> /\ <<>> \in Seq(Commands) /\ <<>> \in Seq(Said)
    BY DEF Init
  <2>2. /\ left \in [{"cuts", "commands", "events"} -> Nat] /\ others \subseteq Nick
        /\ wanted \subseteq Chan /\ bounds \in Bounds
    BY BoundsAssumption DEF Init
  <2>3. members \in [Chan -> SUBSET Nick]
    BY <2>2 DEF Init
  <2>4. Nobody \in Listing
    BY DEF Nobody, Listing
  <2>5. DOMAIN names = Chan /\ \A c \in Chan : names[c] \in Listing
    BY <2>4 DEF Init
  <2>6. me = NoNick /\ NoNick \notin Nick
    BY NickAssumption DEF Init
  <2> QED BY <2>1, <2>2, <2>3, <2>5, <2>6, NickAssumption DEF Init, TypeOK, Idle
<1>2. ServerInv
  BY DEF Init, ServerInv
<1>3. PlaceInv
  BY DEF Init, PlaceInv
<1>4. CleanInv
  BY DEF Init, CleanInv, Clean
<1>5. \E W : WireInv(W)
  <2>1. Now \in World
    BY <1>1, NowFacts
  <2>2. PICK W : W = [i \in 0..0 |-> Now]
    OBVIOUS
  <2>3. Chain(W, <<>>)
    BY <2>1, <2>2, ChainOfNone
  <2>4. wire = <<>> /\ phase = "down" /\ link = "none"
    BY DEF Init
  <2>5. Chain(W, wire)
    BY <2>3, <2>4
  <2>6. WireInv(W)
    BY <2>4, <2>5 DEF WireInv
  <2> QED BY <2>6
<1> QED BY <1>1, <1>2, <1>3, <1>4, <1>5 DEF SessionInv, ViewInv

-----------------------------------------------------------------------------
(* A line is handled.                                                      *)

LEMMA FirstLine ==
    ASSUME NEW W, WireInv(W), wire # <<>>
    PROVE  /\ W[0] \in World /\ W[1] \in World /\ 1 \in 1..Len(wire) /\ 1 \in 0..Len(wire)
           /\ Step(W[0], wire[1], W[1]) /\ Followed(W[0], wire, 1)
           /\ Len(wire) \in Nat
<1>1. wire \in Seq(Said) /\ W \in [0..Len(wire) -> World]
      /\ \A i \in 1..Len(wire) : Step(W[i - 1], wire[i], W[i]) /\ Followed(W[i - 1], wire, i)
  BY DEF WireInv, Chain
<1>2. Len(wire) \in Nat \ {0}
  BY <1>1
<1>3. 1 \in 1..Len(wire) /\ 1 \in 0..Len(wire) /\ 0 \in 0..Len(wire) /\ 1 - 1 = 0
  BY <1>2
<1> QED BY <1>1, <1>2, <1>3

LEMMA StillUndecided ==
    ASSUME NEW W, WireInv(W), wire # <<>>, NEW c \in Chan, Undecided(W, wire, 1, c)
    PROVE  /\ ~Decides(W[0], wire[1], c) => Undecided(W, wire, 0, c)
           /\ c \in In(W[1]) <=> c \in In(W[Len(wire)])
<1>1. Len(wire) \in Nat /\ 1 \in 0..Len(wire)
  BY FirstLine
<1>2. c \in In(W[1]) <=> c \in In(W[Len(wire)])
  BY <1>1 DEF WireInv, Chain
<1>3. \A j \in 0 + 1..Len(wire) : j = 1 \/ j \in 1 + 1..Len(wire)
  BY <1>1
<1>4. 1 - 1 = 0
  OBVIOUS
<1> QED BY <1>2, <1>3, <1>4 DEF Undecided

LEMMA Hear ==
    ASSUME NEW W, WireInv(W), wire # <<>>, wire' = Tail(wire), UNCHANGED <<link, serverVars>>,
           phase' = "registering" => W[1].me = NoNick,
           phase' \in {"rejoined", "on"} => W[1].me = currentNick',
           phase' = "rejoined" => In(W[1]) = {},
           phase' = "on" => \A c \in In(W[1]) \ cutShort' : Agrees(c, W[1])',
           link = "up" /\ phase' \in {"rejoined", "on"} =>
              \A c \in Chan \ adrift' : Undecided(W, wire, 1, c) => Meant(c)'
    PROVE  \E U : WireInv(U)'
<1>1. Chain(W, wire)
  BY DEF WireInv
<1>2. PICK U : /\ Chain(U, Tail(wire)) /\ U[0] = W[1]
               /\ U[Len(Tail(wire))] = W[Len(wire)]
               /\ \A c \in Chan :
                     Undecided(U, Tail(wire), 0, c) <=> Undecided(W, wire, 1, c)
  BY <1>1, ChainTail
<1>3. Now' = Now
  BY NowSame DEF serverVars
<1>4. link' = "up" => U[Len(wire')] = Now'
  BY <1>2, <1>3 DEF WireInv
<1>5. Chain(U, wire')
  BY <1>2
<1>6. phase' = "on" => \A c \in In(U[0]) \ cutShort' : Agrees(c, U[0])'
  <2>1. ASSUME phase' = "on", NEW c \in In(W[1]) \ cutShort' PROVE Agrees(c, U[0])'
    <3>1. Agrees(c, W[1])'
      BY <2>1
    <3> QED BY <1>2, <3>1 DEF Agrees, Pictured
  <2> QED BY <1>2, <2>1
<1>7. link' = "up" /\ phase' \in {"rejoined", "on"} =>
         \A c \in Chan \ adrift' : Undecided(U, wire', 0, c) => Meant(c)'
  BY <1>2
<1>8. /\ phase' = "registering" => U[0].me = NoNick
      /\ phase' \in {"rejoined", "on"} => U[0].me = currentNick'
      /\ phase' = "rejoined" => In(U[0]) = {}
  BY <1>2
<1> QED BY <1>4, <1>5, <1>6, <1>7, <1>8, WireInvNext

(* What is wanted of c stays as it was, or is what has been decided.       *)
KeepsWish(c) ==
    c \notin adrift' =>
       /\ c \notin adrift /\ (c \in wanted' <=> c \in wanted)
       /\ c \in client'.channel <=> c \in client.channel
       /\ c \in client.channel => client' = client

SettlesWish(c, there) ==
    c \notin adrift' =>
       /\ c \in wanted' <=> there
       /\ c \in client'.channel => client'.passed \/ (client'.command = "JOIN" <=> there)

LEMMA Handles ==
    ASSUME SessionInv, NEW kind, Dispatch(kind), NEW W, WireInv(W),
           W[1].me = currentNick',
           \A c \in In(W[1]) \ cutShort' : Agrees(c, W[1])',
           \A c \in Chan : Clean(c)',
           \A c \in Chan : \/ ~Decides(W[0], wire[1], c) /\ KeepsWish(c)
                           \/ SettlesWish(c, c \in In(W[1]))
    PROVE  ViewInv'
<1>1. /\ phase = "on" /\ phase' = "on" /\ wire # <<>> /\ wire' = Tail(wire) /\ out' = out
      /\ UNCHANGED <<link, serverVars>>
  BY DEF Dispatch, Reads
<1>2. Now' = Now /\ Here' = Here
  BY <1>1, NowSame DEF serverVars
<1>3. ASSUME link = "up", NEW c \in Chan \ adrift', Undecided(W, wire, 1, c)
      PROVE  Meant(c)'
  <2>1. CASE ~Decides(W[0], wire[1], c) /\ KeepsWish(c)
    <3>1. Undecided(W, wire, 0, c) /\ c \notin adrift
      BY <1>1, <1>3, <2>1, StillUndecided DEF KeepsWish
    <3>2. Meant(c)
      BY <1>1, <1>3, <3>1 DEF WireInv
    <3>5. CASE c \in client.channel
      <4>1. c \in client'.channel /\ client' = client
        BY <1>3, <2>1, <3>5 DEF KeepsWish
      <4> QED BY <1>1, <1>2, <3>2, <3>5, <4>1 DEF Meant, Fits
    <3>6. CASE c \notin client.channel
      <4>1. c \notin client'.channel /\ (c \in wanted' <=> c \in wanted)
        BY <1>3, <2>1, <3>6 DEF KeepsWish
      <4> QED BY <1>1, <1>2, <3>2, <3>6, <4>1 DEF Meant, Fits
    <3> QED BY <3>5, <3>6
  <2>2. CASE SettlesWish(c, c \in In(W[1]))
    <3>1. c \in In(W[1]) <=> c \in Here
      <4>1. W[Len(wire)] = Now /\ In(Now) = Here
        BY <1>3, NowFacts DEF WireInv, SessionInv
      <4> QED BY <1>1, <1>3, <4>1, StillUndecided
    <3>2. c \in Here' <=> c \in Here
      BY <1>2
    <3> QED BY <1>3, <2>2, <3>1, <3>2 DEF SettlesWish, Meant, Fits
  <2> QED BY <2>1, <2>2
<1>4. \E U : WireInv(U)'
  BY <1>1, <1>3, Hear
<1> QED BY <1>4 DEF ViewInv, CleanInv

LEMMA Handling ==
    ASSUME SessionInv, NEW kind, Dispatch(kind), NEW W, WireInv(W)
    PROVE  /\ wire # <<>> /\ wire[1][1] = kind /\ wire' = Tail(wire)
           /\ phase = "on" /\ phase' = "on"
           /\ W[0] \in World /\ W[1] \in World /\ Step(W[0], wire[1], W[1])
           /\ W[0].me = currentNick /\ currentNick \in Nick
           /\ \A c \in Chan : Clean(c)
           /\ DOMAIN names = Chan
<1>1. wire # <<>> /\ wire[1][1] = kind /\ wire' = Tail(wire) /\ phase = "on" /\ phase' = "on"
  BY DEF Dispatch, Reads
<1>2. W[0] \in World /\ W[1] \in World /\ Step(W[0], wire[1], W[1])
  BY <1>1, FirstLine
<1>3. W[0].me = currentNick /\ currentNick \in Nick /\ DOMAIN names = Chan
  BY <1>1 DEF WireInv, SessionInv, TypeOK
<1>4. \A c \in Chan : Clean(c)
  BY DEF SessionInv, ViewInv, CleanInv
<1> QED BY <1>1, <1>2, <1>3, <1>4

LEMMA KnownAlready ==
    ASSUME NEW W, WireInv(W), phase = "on", wire # <<>>, NEW c \in In(W[0]) \ cutShort,
           ~(wire[1][1] \in {"353", "366"} /\ wire[1][2] = c)
    PROVE  c \in complete /\ c \in joined /\ Faithful(c, names[c], W[0])
<1>1. Agrees(c, W[0])
  BY DEF WireInv
<1>2. wire[1] = <<"366", c>> => wire[1][1] = "366" /\ wire[1][2] = c
  OBVIOUS
<1> QED BY <1>1, <1>2 DEF Agrees, Pictured

LEMMA CleanSame ==
    ASSUME NEW c \in Chan, Clean(c), wire # <<>>, wire[1] # <<"366", c>>,
           c \in complete => c \in complete', c \in cutShort => c \in cutShort',
           names[c] = Nobody => names'[c] = Nobody
    PROVE  Clean(c)'
BY DEF Clean

(* A channel that the line is not about.                                   *)
LEMMA Elsewhere ==
    ASSUME NEW W, WireInv(W), phase = "on", wire # <<>>, NEW d \in Chan, Clean(d),
           SameChannel(W[0], W[1], d), W[1].me = W[0].me,
           ~(wire[1][1] \in {"353", "366"} /\ wire[1][2] = d),
           names'[d] = names[d], d \in joined => d \in joined', d \in complete => d \in complete',
           d \in cutShort <=> d \in cutShort'
    PROVE  /\ d \in In(W[1]) \ cutShort' => Agrees(d, W[1])'
           /\ Clean(d)'
<1>1. d \in In(W[1]) <=> d \in In(W[0])
  BY DEF In, SameChannel
<1>2. ASSUME d \in In(W[1]) \ cutShort' PROVE Agrees(d, W[1])'
  <2>1. d \in complete /\ d \in joined /\ Faithful(d, names[d], W[0])
    BY <1>1, <1>2, KnownAlready
  <2>2. Faithful(d, names'[d], W[1])
    BY <2>1 DEF Faithful, SameChannel
  <2> QED BY <2>1, <2>2 DEF Agrees, Pictured
<1>3. wire[1] # <<"366", d>>
  OBVIOUS
<1>4. Clean(d)'
  BY <1>3, CleanSame
<1> QED BY <1>2, <1>4

(* Only the four lines decide, and only about their channel.               *)
LEMMA Undeciding ==
    ASSUME NEW w, NEW line, NEW c,
           \/ line[1] \notin {"JOIN", "PART", "KICK", "474"}
           \/ line[1] \in {"JOIN", "PART", "KICK"} /\ (line[2] # w.me \/ line[3] # c)
           \/ line[1] = "474" /\ line[2] # c
    PROVE  ~Decides(w, line, c)
BY DEF Decides

LEMMA SetFacts ==
    ASSUME DOMAIN names = Chan, NEW c \in Chan, NEW view, Set(c, view)
    PROVE  names'[c] = view /\ \A d \in Chan \ {c} : names'[d] = names[d]
BY DEF Set

LEMMA HandlesJoin == ASSUME SessionInv, handleJoin PROVE ViewInv'
<1>1. PICK W : WireInv(W)
  BY DEF SessionInv, ViewInv
<1>2. Dispatch("JOIN")
  BY DEF handleJoin
<1>3. /\ wire # <<>> /\ wire[1][1] = "JOIN" /\ wire' = Tail(wire) /\ phase = "on" /\ phase' = "on"
      /\ W[0] \in World /\ W[1] \in World /\ Step(W[0], wire[1], W[1])
      /\ W[0].me = currentNick /\ currentNick \in Nick
      /\ (\A c \in Chan : Clean(c)) /\ DOMAIN names = Chan
  BY <1>1, <1>2, Handling
<1>4. Joins(W[0], wire[1], W[1])
  BY <1>3, Kinds
<1>5. PICK n \in Nick, c \in Chan :
         /\ wire[1] = <<"JOIN", n, c>> /\ SameBut(W[0], W[1], c)
         /\ \/ n = W[0].me /\ c \notin In(W[0]) /\ c \in In(W[1])
            \/ /\ n # W[0].me /\ c \in In(W[0]) /\ W[1].members[c] = W[0].members[c] \cup {n}
               /\ W[1].granted[c] = W[0].granted[c]
  BY <1>4 DEF Joins
<1>6. wire[1][2] = n /\ wire[1][3] = c /\ W[1].me = currentNick' /\ W[1].me = W[0].me
  <2>1. wire[1][2] = n /\ wire[1][3] = c
    BY <1>5
  <2>2. W[1].me = W[0].me
    BY <1>5 DEF SameBut
  <2>3. currentNick' = currentNick
    BY DEF handleJoin
  <2> QED BY <1>3, <2>1, <2>2, <2>3
<1>7. complete' = complete /\ cutShort' = cutShort
  BY DEF handleJoin
<1>8. CASE n = currentNick
  <2>1. /\ joined' = joined \cup {c} /\ wanted' = wanted \cup {c}
        /\ adrift' = adrift \ {c} /\ Overtakes("JOIN", c) /\ names' = names
    BY <1>6, <1>8 DEF handleJoin
  <2>2. c \in In(W[1])
    BY <1>3, <1>5, <1>8
  <2>3. ASSUME NEW d \in Chan \ {c}
        PROVE  (d \in In(W[1]) \ cutShort' => Agrees(d, W[1])') /\ Clean(d)'
    BY <1>1, <1>3, <1>5, <1>6, <1>7, <2>1, Elsewhere DEF SameBut
  <2>4. Clean(c)'
    BY <1>3, <1>5, <1>7, <2>1, CleanSame
  <2>5. ASSUME c \notin cutShort' PROVE Agrees(c, W[1])'
    <3>1. c \in complete \/ names[c] = Nobody
      BY <1>3, <1>5, <1>7, <2>5 DEF Clean
    <3>2. /\ 1 + 1 \in 1..Len(wire)
          /\ wire[1 + 1][1] = "353" /\ wire[1 + 1][2] = c
      BY <1>1, <1>3, <1>5, <1>8, FirstLine DEF Followed
    <3>3. wire' # <<>> /\ wire'[1] = wire[2]
      <4>1. wire \in Seq(Said) /\ Len(wire) >= 2
        BY <3>2 DEF SessionInv, TypeOK
      <4>2. Tail(wire) # <<>> /\ Tail(wire)[1] = wire[1 + 1]
        BY <4>1
      <4> QED BY <1>3, <4>2
    <3>4. 1 + 1 = 2
      OBVIOUS
    <3> QED BY <1>7, <2>1, <3>1, <3>2, <3>3, <3>4 DEF Agrees
  <2>6. ASSUME NEW d \in Chan, d # c PROVE ~Decides(W[0], wire[1], d) /\ KeepsWish(d)
    <3>1. ~Decides(W[0], wire[1], d)
      BY <1>3, <1>6, <2>6, Undeciding
    <3>2. d \in client.channel => c \notin client.channel
      BY <2>6 DEF SessionInv, PlaceInv, Idle
    <3>3. client'.channel = client.channel
      BY <2>1 DEF Overtakes, SessionInv, TypeOK
    <3> QED BY <2>1, <2>6, <3>1, <3>2, <3>3 DEF KeepsWish, Overtakes
  <2>7. SettlesWish(c, c \in In(W[1]))
    <3>1. c \in client.channel =>
             client'.passed = (client.command # "JOIN") /\ client'.command = client.command
      BY <2>1 DEF Overtakes, SessionInv, TypeOK
    <3>2. client'.channel = client.channel
      BY <2>1 DEF Overtakes, SessionInv, TypeOK
    <3> QED BY <2>1, <2>2, <3>1, <3>2 DEF SettlesWish
  <2>8. \A d \in In(W[1]) \ cutShort' : Agrees(d, W[1])'
    <3>1. In(W[1]) \subseteq Chan
      BY DEF In
    <3> QED BY <2>3, <2>5, <3>1
  <2> QED BY <1>1, <1>2, <1>6, <2>3, <2>4, <2>6, <2>7, <2>8, Handles
<1>9. CASE n # currentNick
  <2>1. /\ IF c \in joined /\ n \notin DOMAIN names[c]
           THEN Set(c, With(names[c], n, "")) ELSE UNCHANGED names
        /\ joined' = joined /\ wanted' = wanted /\ adrift' = adrift /\ client' = client
    BY <1>6, <1>9 DEF handleJoin
  <2>2. /\ c \in In(W[0]) /\ W[1].members[c] = W[0].members[c] \cup {n}
        /\ W[1].granted[c] = W[0].granted[c]
    BY <1>3, <1>5, <1>9
  <2>3. /\ \A d \in Chan \ {c} : names'[d] = names[d]
        /\ names'[c] = IF c \in joined /\ n \notin DOMAIN names[c] THEN With(names[c], n, "")
                       ELSE names[c]
    BY <1>3, <2>1, SetFacts
  <2>4. ASSUME NEW d \in Chan \ {c}
        PROVE  (d \in In(W[1]) \ cutShort' => Agrees(d, W[1])') /\ Clean(d)'
    BY <1>1, <1>3, <1>5, <1>6, <1>7, <2>1, <2>3, Elsewhere DEF SameBut
  <2>5. c \notin cutShort => c \in complete /\ c \in joined /\ Faithful(c, names[c], W[0])
    BY <1>1, <1>3, <2>2, KnownAlready
  <2>6. Clean(c)'
    BY <1>7, <2>5 DEF Clean
  <2>7. ASSUME c \notin cutShort' PROVE Agrees(c, W[1])'
    <3>1. c \in complete /\ c \in joined /\ Faithful(c, names[c], W[0])
      BY <1>7, <2>5, <2>7
    <3>2. Faithful(c, names'[c], W[1])
      <4>1. names[c] \in [W[0].members[c] -> Prefix]
        BY <3>1 DEF Faithful
      <4>2. CASE n \in DOMAIN names[c]
        <5>1. W[1].members[c] = W[0].members[c] /\ names'[c] = names[c]
          BY <2>2, <2>3, <4>1, <4>2
        <5> QED BY <2>2, <3>1, <5>1 DEF Faithful
      <4>3. CASE n \notin DOMAIN names[c]
        <5>1. names'[c] = With(names[c], n, "")
          BY <2>3, <3>1, <4>3
        <5>2. names'[c] \in [W[1].members[c] -> Prefix]
          BY <2>2, <4>1, <5>1 DEF With, Prefix
        <5>3. \A m \in W[1].members[c] : \/ names'[c][m] = ""
                                         \/ m \in W[0].members[c] /\ names'[c][m] = names[c][m]
          BY <2>2, <4>1, <5>1 DEF With
        <5> QED BY <2>2, <3>1, <5>2, <5>3 DEF Faithful
      <4> QED BY <4>2, <4>3
    <3> QED BY <1>7, <2>1, <3>1, <3>2 DEF Agrees, Pictured
  <2>8. ASSUME NEW d \in Chan PROVE ~Decides(W[0], wire[1], d) /\ KeepsWish(d)
    <3>1. ~Decides(W[0], wire[1], d)
      BY <1>3, <1>6, <1>9, Undeciding
    <3> QED BY <2>1, <3>1 DEF KeepsWish
  <2>9. \A d \in In(W[1]) \ cutShort' : Agrees(d, W[1])'
    <3>1. In(W[1]) \subseteq Chan
      BY DEF In
    <3> QED BY <2>4, <2>7, <3>1
  <2> QED BY <1>1, <1>2, <1>6, <2>4, <2>6, <2>8, <2>9, Handles
<1> QED BY <1>8, <1>9

LEMMA OvertakesOne ==
    ASSUME SessionInv, NEW kind, NEW c, Overtakes(kind, c)
    PROVE  /\ client'.channel = client.channel /\ client'.command = client.command
           /\ c \in client.channel =>
                 (client'.passed <=> (client.command = "JOIN") # (kind = "JOIN"))
           /\ \A d \in Chan \ {c} : d \in client.channel => client' = client
<1>1. client \in [command : {"none", "JOIN", "PART"}, channel : SUBSET Chan, passed : BOOLEAN]
  BY DEF SessionInv, TypeOK
<1>2. \A d \in Chan \ {c} : d \in client.channel => c \notin client.channel
  BY DEF SessionInv, PlaceInv, Idle
<1> QED BY <1>1, <1>2 DEF Overtakes

LEMMA WithoutFaithful ==
    ASSUME NEW c, NEW view, NEW w, NEW v, NEW n, Faithful(c, view, w), Left(w, v, n, c)
    PROVE  Faithful(c, Without(view, n), v)
<1>1. /\ view \in [w.members[c] -> Prefix] /\ v.members[c] = w.members[c] \ {n}
      /\ v.granted[c] = {g \in w.granted[c] : g[1] # n}
  BY DEF Faithful, Left
<1>2. Without(view, n) \in [v.members[c] -> Prefix]
  BY <1>1 DEF Without
<1>3. ASSUME NEW m \in v.members[c]
      PROVE  Without(view, n)[m] = view[m] /\ m \in w.members[c] /\ m # n
  BY <1>1 DEF Without
<1>4. ASSUME NEW m \in v.members[c], NEW l, <<m, l>> \in w.granted[c]
      PROVE  <<m, l>> \in v.granted[c]
  BY <1>1, <1>4
<1> QED BY <1>2, <1>3, <1>4 DEF Faithful

LEMMA NobodyStays == ASSUME NEW n PROVE Without(Nobody, n) = Nobody
<1>1. {} \ {n} = {} /\ DOMAIN Nobody = {}
  BY DEF Nobody
<1> QED BY <1>1 DEF Without, Nobody

(* A member leaves a channel that the connector is in, or its own nick does. *)
LEMMA HandlesDeparture ==
    ASSUME SessionInv, NEW W, WireInv(W), NEW kind \in {"PART", "KICK"}, Dispatch(kind),
           NEW n \in Nick, NEW c \in Chan, wire[1] = <<kind, n, c>>, SameBut(W[0], W[1], c),
           n # currentNick, Left(W[0], W[1], n, c),
           Set(c, Without(names[c], n)),
           UNCHANGED <<joined, complete, cutShort, wanted, adrift, client, currentNick>>
    PROVE  ViewInv'
<1>1. /\ wire # <<>> /\ wire[1][1] = kind /\ phase = "on"
      /\ W[0].me = currentNick
      /\ (\A d \in Chan : Clean(d)) /\ DOMAIN names = Chan
  BY Handling
<1>2. names'[c] = Without(names[c], n) /\ \A d \in Chan \ {c} : names'[d] = names[d]
  BY <1>1, SetFacts
<1>3. wire[1][2] = n /\ wire[1][3] = c /\ W[1].me = W[0].me
  BY DEF SameBut
<1>4. ASSUME NEW d \in Chan \ {c}
      PROVE  (d \in In(W[1]) \ cutShort' => Agrees(d, W[1])') /\ Clean(d)'
  BY <1>1, <1>2, <1>3, Elsewhere DEF SameBut
<1>5. names[c] = Nobody => names'[c] = Nobody
  BY <1>2, NobodyStays
<1>6. Clean(c)'
  <2>1. wire[1] # <<"366", c>>
    BY <1>1
  <2> QED BY <1>1, <1>5, <2>1, CleanSame
<1>7. ASSUME c \in In(W[1]) \ cutShort' PROVE Agrees(c, W[1])'
  <2>1. c \in In(W[0]) \ cutShort
    BY <1>3, <1>7 DEF In, Left
  <2>2. c \in complete /\ c \in joined /\ Faithful(c, names[c], W[0])
    BY <1>1, <2>1, KnownAlready
  <2>3. Faithful(c, names'[c], W[1])
    BY <1>2, <2>2, WithoutFaithful
  <2> QED BY <2>2, <2>3 DEF Agrees, Pictured
<1>8. ASSUME NEW d \in Chan PROVE ~Decides(W[0], wire[1], d) /\ KeepsWish(d)
  <2>1. ~Decides(W[0], wire[1], d)
    BY <1>1, <1>3, Undeciding
  <2> QED BY <2>1 DEF KeepsWish
<1>9. \A d \in In(W[1]) \ cutShort' : Agrees(d, W[1])'
  <2>1. In(W[1]) \subseteq Chan
    BY DEF In
  <2> QED BY <1>4, <1>7, <2>1
<1>10. \A d \in Chan : Clean(d)'
  BY <1>4, <1>6
<1>11. W[1].me = currentNick'
  BY <1>1, <1>3
<1> QED BY <1>8, <1>9, <1>10, <1>11, Handles

LEMMA PartedOrKicked ==
    ASSUME SessionInv, NEW W, WireInv(W), NEW kind \in {"PART", "KICK"}, Dispatch(kind)
    PROVE  \E n \in Nick, c \in Chan :
              /\ wire[1] = <<kind, n, c>> /\ wire[1][2] = n /\ wire[1][3] = c
              /\ SameBut(W[0], W[1], c) /\ W[1].me = W[0].me
              /\ n = currentNick => W[1].members[c] = {} /\ c \notin In(W[1])
              /\ n # currentNick => Left(W[0], W[1], n, c)
<1>1. wire[1][1] = kind /\ Step(W[0], wire[1], W[1]) /\ W[0].me = currentNick
  BY Handling
<1>2. Parts(W[0], wire[1], W[1])
  BY <1>1, Kinds
<1>3. PICK n \in Nick, c \in Chan :
         /\ wire[1] \in {<<"PART", n, c>>, <<"KICK", n, c>>} /\ SameBut(W[0], W[1], c)
         /\ IF n = W[0].me THEN W[1].members[c] = {} /\ W[1].granted[c] = {}
            ELSE Left(W[0], W[1], n, c)
  BY <1>2 DEF Parts
<1>4. wire[1] = <<kind, n, c>>
  BY <1>1, <1>3
<1>5. wire[1][2] = n /\ wire[1][3] = c
  BY <1>4
<1> QED BY <1>1, <1>3, <1>4, <1>5 DEF In, SameBut

LEMMA HandlesPart == ASSUME SessionInv, handlePart PROVE ViewInv'
<1>1. PICK W : WireInv(W)
  BY DEF SessionInv, ViewInv
<1>2. Dispatch("PART")
  BY DEF handlePart
<1>3. PICK n \in Nick, c \in Chan :
              /\ wire[1] = <<"PART", n, c>> /\ wire[1][2] = n /\ wire[1][3] = c
              /\ SameBut(W[0], W[1], c) /\ W[1].me = W[0].me
              /\ n = currentNick => W[1].members[c] = {} /\ c \notin In(W[1])
              /\ n # currentNick => Left(W[0], W[1], n, c)
  BY <1>1, <1>2, PartedOrKicked
<1>4. /\ wire # <<>> /\ wire[1][1] = "PART" /\ phase = "on"
      /\ W[0].me = currentNick
      /\ (\A d \in Chan : Clean(d)) /\ DOMAIN names = Chan
  BY <1>1, <1>2, Handling
<1>5. currentNick' = currentNick
  BY DEF handlePart
<1>6. CASE n = currentNick
  <2>1. /\ joined' = joined \ {c} /\ complete' = complete \ {c} /\ Set(c, Nobody)
        /\ cutShort' = cutShort \ {c}
        /\ wanted' = wanted \ {c} /\ adrift' = adrift \ {c} /\ Overtakes("PART", c)
    BY <1>3, <1>6 DEF handlePart
  <2>2. names'[c] = Nobody /\ \A d \in Chan \ {c} : names'[d] = names[d]
    BY <1>4, <2>1, SetFacts
  <2>3. ASSUME NEW d \in Chan \ {c}
        PROVE  (d \in In(W[1]) \ cutShort' => Agrees(d, W[1])') /\ Clean(d)'
    BY <1>1, <1>3, <1>4, <2>1, <2>2, Elsewhere DEF SameBut
  <2>4. Clean(c)'
    BY <2>2 DEF Clean
  <2>5. /\ client'.channel = client.channel /\ client'.command = client.command
        /\ c \in client.channel => (client'.passed <=> client.command = "JOIN")
        /\ \A d \in Chan \ {c} : d \in client.channel => client' = client
    BY <2>1, OvertakesOne
  <2>6. ASSUME NEW d \in Chan, d # c PROVE ~Decides(W[0], wire[1], d) /\ KeepsWish(d)
    <3>1. ~Decides(W[0], wire[1], d)
      BY <1>3, <1>4, <2>6, Undeciding
    <3> QED BY <2>1, <2>5, <2>6, <3>1 DEF KeepsWish
  <2>7. SettlesWish(c, c \in In(W[1]))
    BY <1>3, <1>6, <2>1, <2>5 DEF SettlesWish
  <2>8. \A d \in In(W[1]) \ cutShort' : Agrees(d, W[1])'
    <3>1. In(W[1]) \subseteq Chan
      BY DEF In
    <3> QED BY <1>3, <1>6, <2>3, <3>1
  <2>9. W[1].me = currentNick' /\ \A d \in Chan : Clean(d)'
    BY <1>3, <1>4, <1>5, <2>3, <2>4
  <2> QED BY <1>1, <1>2, <2>6, <2>7, <2>8, <2>9, Handles
<1>7. CASE n # currentNick
  <2>1. /\ Set(c, Without(names[c], n))
        /\ UNCHANGED <<joined, complete, cutShort, wanted, adrift, client, currentNick>>
    BY <1>3, <1>5, <1>7 DEF handlePart
  <2> QED BY <1>1, <1>2, <1>3, <1>7, <2>1, HandlesDeparture
<1> QED BY <1>6, <1>7

LEMMA HandlesKick == ASSUME SessionInv, handleKick PROVE ViewInv'
<1>1. PICK W : WireInv(W)
  BY DEF SessionInv, ViewInv
<1>2. Dispatch("KICK")
  BY DEF handleKick
<1>3. PICK n \in Nick, c \in Chan :
              /\ wire[1] = <<"KICK", n, c>> /\ wire[1][2] = n /\ wire[1][3] = c
              /\ SameBut(W[0], W[1], c) /\ W[1].me = W[0].me
              /\ n = currentNick => W[1].members[c] = {} /\ c \notin In(W[1])
              /\ n # currentNick => Left(W[0], W[1], n, c)
  BY <1>1, <1>2, PartedOrKicked
<1>4. /\ wire # <<>> /\ wire[1][1] = "KICK" /\ phase = "on"
      /\ W[0].me = currentNick
      /\ (\A d \in Chan : Clean(d)) /\ DOMAIN names = Chan
  BY <1>1, <1>2, Handling
<1>5. /\ Set(c, Without(names[c], n))
      /\ adrift' = IF n = currentNick THEN adrift \cup {c} ELSE adrift
      /\ UNCHANGED <<joined, complete, cutShort, wanted, client, currentNick>>
  BY <1>3 DEF handleKick
<1>6. CASE n = currentNick
  <2>1. names'[c] = Without(names[c], n) /\ \A d \in Chan \ {c} : names'[d] = names[d]
    BY <1>4, <1>5, SetFacts
  <2>2. ASSUME NEW d \in Chan \ {c}
        PROVE  (d \in In(W[1]) \ cutShort' => Agrees(d, W[1])') /\ Clean(d)'
    BY <1>1, <1>3, <1>4, <1>5, <2>1, Elsewhere DEF SameBut
  <2>3. Clean(c)'
    <3>1. names[c] = Nobody => names'[c] = Nobody
      BY <2>1, NobodyStays
    <3>2. wire[1] # <<"366", c>>
      BY <1>4
    <3> QED BY <1>4, <1>5, <3>1, <3>2, CleanSame
  <2>4. ASSUME NEW d \in Chan
        PROVE  \/ ~Decides(W[0], wire[1], d) /\ KeepsWish(d)
               \/ SettlesWish(d, d \in In(W[1]))
    <3>1. CASE d = c
      BY <1>5, <1>6, <3>1 DEF SettlesWish
    <3>2. CASE d # c
      <4>1. ~Decides(W[0], wire[1], d)
        BY <1>3, <1>4, <3>2, Undeciding
      <4> QED BY <1>5, <1>6, <3>2, <4>1 DEF KeepsWish
    <3> QED BY <3>1, <3>2
  <2>5. \A d \in In(W[1]) \ cutShort' : Agrees(d, W[1])'
    <3>1. In(W[1]) \subseteq Chan
      BY DEF In
    <3> QED BY <1>3, <1>6, <2>2, <3>1
  <2>6. W[1].me = currentNick' /\ \A d \in Chan : Clean(d)'
    BY <1>3, <1>4, <1>5, <2>2, <2>3
  <2> QED BY <1>1, <1>2, <2>4, <2>5, <2>6, Handles
<1>7. CASE n # currentNick
  BY <1>1, <1>2, <1>3, <1>5, <1>7, HandlesDeparture
<1> QED BY <1>6, <1>7

LEMMA HandlesQuit == ASSUME SessionInv, handleQuit PROVE ViewInv'
<1>1. PICK W : WireInv(W)
  BY DEF SessionInv, ViewInv
<1>2. Dispatch("QUIT")
  BY DEF handleQuit
<1>3. /\ wire # <<>> /\ wire[1][1] = "QUIT" /\ phase = "on" /\ Step(W[0], wire[1], W[1])
      /\ W[0].me = currentNick
      /\ (\A d \in Chan : Clean(d)) /\ DOMAIN names = Chan
  BY <1>1, <1>2, Handling
<1>4. Quits(W[0], wire[1], W[1])
  BY <1>3, Kinds
<1>5. PICK n \in Nick : /\ wire[1] = <<"QUIT", n>> /\ n # W[0].me
                        /\ W[1].me = W[0].me /\ \A c \in Chan : Left(W[0], W[1], n, c)
  BY <1>4 DEF Quits
<1>6. wire[1][2] = n
  BY <1>5
<1>7. /\ names' = [c \in Chan |-> Without(names[c], n)]
      /\ UNCHANGED <<joined, complete, cutShort, wanted, adrift, client, currentNick>>
  BY <1>6 DEF handleQuit
<1>8. ASSUME NEW c \in In(W[1]) \ cutShort' PROVE Agrees(c, W[1])'
  <2>1. c \in Chan /\ c \in In(W[0]) \ cutShort
    BY <1>5, <1>7 DEF In, Left
  <2>2. c \in complete /\ c \in joined /\ Faithful(c, names[c], W[0])
    BY <1>1, <1>3, <2>1, KnownAlready
  <2>3. names'[c] = Without(names[c], n)
    BY <1>7, <2>1
  <2>4. Left(W[0], W[1], n, c)
    BY <1>5, <2>1
  <2>5. Faithful(c, names'[c], W[1])
    BY <2>2, <2>3, <2>4, WithoutFaithful
  <2> QED BY <1>7, <2>2, <2>5 DEF Agrees, Pictured
<1>9. ASSUME NEW c \in Chan PROVE Clean(c)'
  <2>1. names[c] = Nobody => names'[c] = Nobody
    BY <1>7, NobodyStays
  <2>2. wire[1] # <<"366", c>>
    BY <1>3
  <2> QED BY <1>3, <1>7, <2>1, <2>2, CleanSame
<1>10. ASSUME NEW c \in Chan PROVE ~Decides(W[0], wire[1], c) /\ KeepsWish(c)
  <2>1. ~Decides(W[0], wire[1], c)
    BY <1>3, Undeciding
  <2> QED BY <1>7, <2>1 DEF KeepsWish
<1>11. W[1].me = currentNick'
  BY <1>3, <1>5, <1>7
<1> QED BY <1>1, <1>2, <1>8, <1>9, <1>10, <1>11, Handles

LEMMA RenamedFaithful ==
    ASSUME NEW c, NEW view, NEW w, NEW v, NEW old, NEW new, Faithful(c, view, w), old # new,
           new \notin w.members[c], v.members[c] = Renamed(w.members[c], old, new),
           v.granted[c] = RenamedModes(w.granted[c], old, new)
    PROVE  Faithful(c, IF old \in DOMAIN view
                       THEN Without(With(view, new, view[old]), old) ELSE view, v)
<1>1. view \in [w.members[c] -> Prefix]
  BY DEF Faithful
<1>2. ASSUME NEW m, NEW l, <<m, l>> \in w.granted[c]
      PROVE  <<(IF m = old THEN new ELSE m), l>> \in v.granted[c]
  <2>1. (IF <<m, l>>[1] = old THEN <<new, <<m, l>>[2]>> ELSE <<m, l>>)
           \in RenamedModes(w.granted[c], old, new)
    BY <1>2 DEF RenamedModes
  <2>2. <<m, l>>[1] = m /\ <<m, l>>[2] = l
    OBVIOUS
  <2> QED BY <2>1, <2>2
<1>3. CASE old \in DOMAIN view
  <2> DEFINE mid == With(view, new, view[old])
             after == Without(mid, old)
  <2>1. DOMAIN mid = w.members[c] \cup {new} /\ \A m \in w.members[c] : mid[m] = view[m]
    BY <1>1 DEF With
  <2>2. mid[new] = view[old]
    BY <1>1 DEF With
  <2> HIDE DEF mid
  <2>3. DOMAIN after = (w.members[c] \cup {new}) \ {old}
        /\ \A m \in (w.members[c] \cup {new}) \ {old} : after[m] = mid[m]
    BY <2>1 DEF Without
  <2>4. v.members[c] = (w.members[c] \cup {new}) \ {old}
    BY <1>1, <1>3 DEF Renamed
  <2>5. after = [m \in DOMAIN after |-> after[m]]
    BY DEF Without
  <2> HIDE DEF after
  <2>6. after \in [v.members[c] -> Prefix]
    BY <1>1, <1>3, <2>1, <2>2, <2>3, <2>4, <2>5
  <2>7. ASSUME NEW m \in v.members[c]
        PROVE  \E k \in w.members[c] : after[m] = view[k] /\ m = IF k = old THEN new ELSE k
    <3>1. CASE m = new
      BY <1>1, <1>3, <2>2, <2>3, <2>4, <3>1
    <3>2. CASE m # new
      BY <2>1, <2>3, <2>4, <3>2
    <3> QED BY <3>1, <3>2
  <2>8. ASSUME NEW m \in v.members[c]
        PROVE  /\ after[m] = "~" => <<m, "q">> \in v.granted[c]
               /\ after[m] = "@" => <<m, "o">> \in v.granted[c]
    <3>1. PICK k \in w.members[c] : after[m] = view[k] /\ m = IF k = old THEN new ELSE k
      BY <2>7
    <3>2. /\ view[k] = "~" => <<k, "q">> \in w.granted[c]
          /\ view[k] = "@" => <<k, "o">> \in w.granted[c]
      BY DEF Faithful
    <3> QED BY <1>2, <3>1, <3>2
  <2>9. Faithful(c, after, v)
    BY <2>6, <2>8 DEF Faithful
  <2> QED BY <1>3, <2>9 DEF after, mid
<1>4. CASE old \notin DOMAIN view
  <2>1. v.members[c] = w.members[c]
    BY <1>1, <1>4 DEF Renamed
  <2>2. ASSUME NEW m \in w.members[c], NEW l, <<m, l>> \in w.granted[c]
        PROVE  <<m, l>> \in v.granted[c]
    <3>1. m # old
      BY <1>1, <1>4
    <3> QED BY <1>2, <2>2, <3>1
  <2> QED BY <1>4, <2>1, <2>2 DEF Faithful
<1> QED BY <1>3, <1>4

LEMMA HandlesNick == ASSUME SessionInv, handleNickChange PROVE ViewInv'
<1>1. PICK W : WireInv(W)
  BY DEF SessionInv, ViewInv
<1>2. Dispatch("NICK")
  BY DEF handleNickChange
<1>3. /\ wire # <<>> /\ wire[1][1] = "NICK" /\ phase = "on" /\ Step(W[0], wire[1], W[1])
      /\ W[0] \in World /\ W[1] \in World /\ W[0].me = currentNick
      /\ (\A d \in Chan : Clean(d)) /\ DOMAIN names = Chan
  BY <1>1, <1>2, Handling
<1>4. Renames(W[0], wire[1], W[1])
  BY <1>3, Kinds
<1>5. PICK old \in Nick, new \in Nick :
       /\ wire[1] = <<"NICK", old, new>> /\ old # new /\ new # W[0].me
       /\ \A c \in Chan : new \notin W[0].members[c]
       /\ W[1].me = IF old = W[0].me THEN new ELSE W[0].me
       /\ \A c \in Chan : /\ W[1].members[c] = Renamed(W[0].members[c], old, new)
                          /\ W[1].granted[c] = RenamedModes(W[0].granted[c], old, new)
  BY <1>4 DEF Renames
<1>6. wire[1][2] = old /\ wire[1][3] = new
  BY <1>5
<1>7. /\ names' = [c \in Chan |-> IF old \in DOMAIN names[c]
                                  THEN Without(With(names[c], new, names[c][old]), old)
                                  ELSE names[c]]
      /\ currentNick' = IF old = currentNick THEN new ELSE currentNick
      /\ UNCHANGED <<joined, complete, cutShort, wanted, adrift, client>>
  BY <1>6 DEF handleNickChange
<1>8. ASSUME NEW c \in Chan PROVE ~Decides(W[0], wire[1], c) /\ KeepsWish(c)
  <2>1. ~Decides(W[0], wire[1], c)
    BY <1>3, Undeciding
  <2> QED BY <1>7, <2>1 DEF KeepsWish
<1>9. ASSUME NEW c \in In(W[1]) \ cutShort' PROVE Agrees(c, W[1])'
  <2>1. c \in Chan /\ c \in In(W[0]) \ cutShort
    <3>1. c \in Chan
      BY DEF In
    <3> QED BY <1>3, <1>7, <1>8, <1>9, <3>1, OthersLeaveUsIn
  <2>2. c \in complete /\ c \in joined /\ Faithful(c, names[c], W[0])
    BY <1>1, <1>3, <2>1, KnownAlready
  <2>3. names'[c] = IF old \in DOMAIN names[c]
                    THEN Without(With(names[c], new, names[c][old]), old) ELSE names[c]
    BY <1>7, <2>1
  <2>4. /\ new \notin W[0].members[c] /\ W[1].members[c] = Renamed(W[0].members[c], old, new)
        /\ W[1].granted[c] = RenamedModes(W[0].granted[c], old, new)
    BY <1>5, <2>1
  <2>5. Faithful(c, names'[c], W[1])
    <3>1. Faithful(c, IF old \in DOMAIN names[c]
                      THEN Without(With(names[c], new, names[c][old]), old) ELSE names[c], W[1])
      <4>1. Faithful(c, names[c], W[0]) /\ old # new
        BY <1>5, <2>2
      <4> QED BY <2>4, <4>1, RenamedFaithful
    <3> QED BY <2>3, <3>1
  <2> QED BY <1>7, <2>2, <2>5 DEF Agrees, Pictured
<1>10. ASSUME NEW c \in Chan PROVE Clean(c)'
  <2>1. names[c] = Nobody => names'[c] = Nobody
    BY <1>7 DEF Nobody
  <2>2. wire[1] # <<"366", c>>
    BY <1>3
  <2> QED BY <1>3, <1>7, <2>1, <2>2, CleanSame
<1>11. W[1].me = currentNick'
  BY <1>3, <1>5, <1>7
<1> QED BY <1>1, <1>2, <1>8, <1>9, <1>10, <1>11, Handles

(* The prefix shown is never more than the modes.                          *)
LEMMA DisplayedFaithful ==
    ASSUME NEW prefix \in Prefix, NEW adding \in BOOLEAN, NEW letter \in Letter
    PROVE  LET shown == Displayed(prefix, adding, letter) IN
           /\ shown \in Prefix
           /\ shown = "~" => (adding /\ letter = "q") \/ (prefix = "~" /\ (adding \/ letter # "q"))
           /\ shown = "@" => (adding /\ letter = "o") \/ (prefix = "@" /\ (adding \/ letter # "o"))
<1>1. PrefixOf.q = "~" /\ PrefixOf.o = "@" /\ PrefixOf.v = "+"
  BY DEF PrefixOf
<1>2. letter = "q" \/ letter = "o" \/ letter = "v"
  BY DEF Letter
<1>3. CASE letter = "q"
  <2>1. PrefixOf[letter] = "~"
    BY <1>1, <1>3
  <2> QED BY <1>3, <2>1 DEF Displayed, Prefix
<1>4. CASE letter = "o"
  <2>1. PrefixOf[letter] = "@"
    BY <1>1, <1>4
  <2> QED BY <1>4, <2>1 DEF Displayed, Prefix
<1>5. CASE letter = "v"
  <2>1. PrefixOf[letter] = "+"
    BY <1>1, <1>5
  <2> QED BY <1>5, <2>1 DEF Displayed, Prefix
<1> QED BY <1>2, <1>3, <1>4, <1>5

LEMMA HandlesMode == ASSUME SessionInv, handleMode PROVE ViewInv'
<1>1. PICK W : WireInv(W)
  BY DEF SessionInv, ViewInv
<1>2. Dispatch("MODE")
  BY DEF handleMode
<1>3. /\ wire # <<>> /\ wire[1][1] = "MODE" /\ phase = "on" /\ Step(W[0], wire[1], W[1])
      /\ W[0] \in World /\ W[1] \in World /\ W[0].me = currentNick
      /\ (\A d \in Chan : Clean(d)) /\ DOMAIN names = Chan
  BY <1>1, <1>2, Handling
<1>4. Sets(W[0], wire[1], W[1])
  BY <1>3, Kinds
<1>5. PICK adding \in BOOLEAN, letter \in Letter, n \in Nick, c \in Chan :
       /\ wire[1] = <<"MODE", adding, letter, n, c>>
       /\ c \in In(W[0]) /\ n \in W[0].members[c] /\ SameBut(W[0], W[1], c)
       /\ W[1].members[c] = W[0].members[c]
       /\ W[1].granted[c] = IF adding THEN W[0].granted[c] \cup {<<n, letter>>}
                            ELSE W[0].granted[c] \ {<<n, letter>>}
  BY <1>4 DEF Sets
<1>6. wire[1][2] = adding /\ wire[1][3] = letter /\ wire[1][4] = n /\ wire[1][5] = c
  <2>1. ASSUME NEW l, l = <<"MODE", adding, letter, n, c>>
        PROVE  l[2] = adding /\ l[3] = letter /\ l[4] = n /\ l[5] = c
    BY <2>1
  <2> QED BY <1>5, <2>1
<1>7. W[1].me = W[0].me /\ c \in In(W[1])
  BY <1>5 DEF SameBut, In
<1> DEFINE view == [names[c] EXCEPT ![n] = Displayed(@, adding, letter)]
<1>8. /\ IF n \in DOMAIN names[c] THEN Set(c, view) ELSE UNCHANGED names
      /\ UNCHANGED <<joined, complete, cutShort, wanted, adrift, client, currentNick>>
  BY <1>6 DEF handleMode
<1> HIDE DEF view
<1>9. /\ names'[c] = (IF n \in DOMAIN names[c] THEN view ELSE names[c])
      /\ \A d \in Chan \ {c} : names'[d] = names[d]
  BY <1>3, <1>8, SetFacts
<1>10. ASSUME NEW d \in Chan \ {c}
       PROVE  (d \in In(W[1]) \ cutShort' => Agrees(d, W[1])') /\ Clean(d)'
  BY <1>1, <1>3, <1>5, <1>7, <1>8, <1>9, Elsewhere DEF SameBut
<1>11. Clean(c)'
  <2>1. names[c] = Nobody => names'[c] = Nobody
    BY <1>9 DEF Nobody
  <2>2. wire[1] # <<"366", c>>
    BY <1>3
  <2> QED BY <1>3, <1>8, <2>1, <2>2, CleanSame
<1>12. ASSUME c \notin cutShort' PROVE Agrees(c, W[1])'
  <2>1. c \in complete /\ c \in joined /\ Faithful(c, names[c], W[0])
    BY <1>1, <1>3, <1>5, <1>8, <1>12, KnownAlready
  <2>2. names[c] \in [W[0].members[c] -> Prefix]
    BY <2>1 DEF Faithful
  <2> DEFINE shown == Displayed(names[c][n], adding, letter)
  <2>3. names'[c] = view /\ view = [names[c] EXCEPT ![n] = shown]
    BY <1>5, <1>9, <2>2 DEF view
  <2>4. /\ shown \in Prefix
        /\ shown = "~" => \/ adding /\ letter = "q"
                          \/ names[c][n] = "~" /\ (adding \/ letter # "q")
        /\ shown = "@" => \/ adding /\ letter = "o"
                          \/ names[c][n] = "@" /\ (adding \/ letter # "o")
    <3>1. names[c][n] \in Prefix
      BY <1>5, <2>2
    <3> QED BY <3>1, DisplayedFaithful
  <2> HIDE DEF shown
  <2>5. /\ view \in [W[1].members[c] -> Prefix] /\ view[n] = shown
        /\ \A m \in W[1].members[c] \ {n} : view[m] = names[c][m]
    BY <1>5, <2>2, <2>3, <2>4
  <2>6. ASSUME NEW m \in W[1].members[c], m # n, NEW l, <<m, l>> \in W[0].granted[c]
        PROVE  <<m, l>> \in W[1].granted[c]
    <3>1. <<m, l>> # <<n, letter>>
      BY <2>6
    <3> QED BY <1>5, <2>6, <3>1
  <2>7. ASSUME NEW l \in Letter,
               \/ adding /\ letter = l
               \/ <<n, l>> \in W[0].granted[c] /\ (adding \/ letter # l)
        PROVE  <<n, l>> \in W[1].granted[c]
    <3>1. CASE adding
      BY <1>5, <2>7, <3>1
    <3>2. CASE ~adding
      <4>1. <<n, l>> # <<n, letter>>
        BY <2>7, <3>2
      <4> QED BY <1>5, <2>7, <3>2, <4>1
    <3> QED BY <3>1, <3>2
  <2>8. ASSUME NEW m \in W[1].members[c]
        PROVE  /\ view[m] = "~" => <<m, "q">> \in W[1].granted[c]
               /\ view[m] = "@" => <<m, "o">> \in W[1].granted[c]
    <3>1. CASE m = n
      <4>1. "q" \in Letter /\ "o" \in Letter
        BY DEF Letter
      <4>2. /\ names[c][n] = "~" => <<n, "q">> \in W[0].granted[c]
            /\ names[c][n] = "@" => <<n, "o">> \in W[0].granted[c]
        BY <1>5, <2>1 DEF Faithful
      <4> QED BY <2>4, <2>5, <2>7, <3>1, <4>1, <4>2
    <3>2. CASE m # n
      <4>1. /\ names[c][m] = "~" => <<m, "q">> \in W[0].granted[c]
            /\ names[c][m] = "@" => <<m, "o">> \in W[0].granted[c]
        BY <1>5, <2>1 DEF Faithful
      <4> QED BY <2>5, <2>6, <3>2, <4>1
    <3> QED BY <3>1, <3>2
  <2>9. Faithful(c, names'[c], W[1])
    BY <2>3, <2>5, <2>8 DEF Faithful
  <2> QED BY <1>8, <2>1, <2>9 DEF Agrees, Pictured
<1>13. ASSUME NEW d \in Chan PROVE ~Decides(W[0], wire[1], d) /\ KeepsWish(d)
  <2>1. ~Decides(W[0], wire[1], d)
    BY <1>3, Undeciding
  <2> QED BY <1>8, <2>1 DEF KeepsWish
<1>14. \A d \in In(W[1]) \ cutShort' : Agrees(d, W[1])'
  <2>1. In(W[1]) \subseteq Chan
    BY DEF In
  <2> QED BY <1>10, <1>12, <2>1
<1>15. W[1].me = currentNick' /\ \A d \in Chan : Clean(d)'
  BY <1>3, <1>7, <1>8, <1>10, <1>11
<1> QED BY <1>1, <1>2, <1>13, <1>14, <1>15, Handles

LEMMA SecondLine ==
    ASSUME SessionInv, 1 + 1 \in 1..Len(wire), wire' = Tail(wire)
    PROVE  wire' # <<>> /\ wire'[1] = wire[1 + 1]
<1>1. wire \in Seq(Said) /\ Len(wire) >= 2
  BY DEF SessionInv, TypeOK
<1>2. Tail(wire) # <<>> /\ Tail(wire)[1] = wire[1 + 1]
  BY <1>1
<1> QED BY <1>2

LEMMA HandlesNames == ASSUME SessionInv, OnNamesReply PROVE ViewInv'
<1>1. PICK W : WireInv(W)
  BY DEF SessionInv, ViewInv
<1>2. Dispatch("353")
  BY DEF OnNamesReply
<1>3. /\ wire # <<>> /\ wire[1][1] = "353" /\ wire' = Tail(wire) /\ phase = "on" /\ phase' = "on"
      /\ Step(W[0], wire[1], W[1]) /\ W[0].me = currentNick
      /\ (\A d \in Chan : Clean(d)) /\ DOMAIN names = Chan
  BY <1>1, <1>2, Handling
<1>4. Lists(W[0], wire[1], W[1])
  BY <1>3, Kinds
<1>5. PICK c \in Chan, listed \in Listing :
         /\ wire[1] = <<"353", c, listed>> /\ c \in In(W[0])
         /\ Faithful(c, listed, W[0]) /\ W[1] = W[0]
  BY <1>4 DEF Lists
<1>6. wire[1][2] = c /\ wire[1][3] = listed
  BY <1>5
<1> DEFINE view == [n \in DOMAIN listed \cup Kept(c) |->
                       IF n \in DOMAIN listed THEN listed[n] ELSE names[c][n]]
<1>7. /\ joined' = joined \cup {c} /\ complete' = complete \ {c}
      /\ cutShort' = IF c \in complete THEN cutShort \ {c} ELSE cutShort
      /\ Set(c, view)
      /\ UNCHANGED <<wanted, adrift, client, currentNick>>
  BY <1>6 DEF OnNamesReply
<1>8. Kept(c) = {} => view = [n \in DOMAIN listed |-> listed[n]]
  OBVIOUS
<1> HIDE DEF view
<1>9. names'[c] = view /\ \A d \in Chan \ {c} : names'[d] = names[d]
  BY <1>3, <1>7, SetFacts
<1>10. /\ wire' # <<>> /\ wire'[1] = <<"366", c>>
  <2>1. Followed(W[0], wire, 1)
    BY <1>1, <1>3, FirstLine
  <2>2. 1 + 1 \in 1..Len(wire) /\ wire[1 + 1] = <<"366", c>>
    BY <1>3, <1>6, <2>1 DEF Followed
  <2> QED BY <1>3, <2>2, SecondLine
<1>11. ASSUME NEW d \in Chan \ {c}
       PROVE  (d \in In(W[1]) \ cutShort' => Agrees(d, W[1])') /\ Clean(d)'
  <2>1. SameChannel(W[0], W[1], d) /\ W[1].me = W[0].me
    BY <1>5 DEF SameChannel
  <2>2. ~(wire[1][1] \in {"353", "366"} /\ wire[1][2] = d)
    BY <1>6
  <2>3. names'[d] = names[d] /\ (d \in joined => d \in joined')
        /\ (d \in complete => d \in complete') /\ (d \in cutShort <=> d \in cutShort')
    BY <1>7, <1>9
  <2> QED BY <1>1, <1>3, <2>1, <2>2, <2>3, Elsewhere
<1>12. Clean(c)'
  BY <1>3, <1>7, <1>10 DEF Clean
<1>13. ASSUME c \notin cutShort' PROVE Agrees(c, W[1])'
  <2>1. Kept(c) = {}
    <3>1. CASE c \in complete
      BY <3>1 DEF Kept
    <3>2. CASE c \notin complete
      <4>1. Agrees(c, W[0])
        BY <1>1, <1>3, <1>5, <1>7, <1>13, <3>2 DEF WireInv
      <4>2. wire[1] # <<"366", c>>
        BY <1>3
      <4>3. names[c] = Nobody
        BY <3>2, <4>1, <4>2 DEF Agrees
      <4> QED BY <3>2, <4>3 DEF Kept, Nobody
    <3> QED BY <3>1, <3>2
  <2>2. listed \in [W[0].members[c] -> Prefix]
    BY <1>5 DEF Faithful
  <2>3. view = listed
    BY <1>8, <2>1, <2>2
  <2>4. Faithful(c, names'[c], W[1])
    BY <1>5, <1>9, <2>3
  <2> QED BY <1>7, <1>10, <2>4 DEF Agrees, Pictured
<1>14. ASSUME NEW d \in Chan PROVE ~Decides(W[0], wire[1], d) /\ KeepsWish(d)
  <2>1. ~Decides(W[0], wire[1], d)
    BY <1>3, Undeciding
  <2> QED BY <1>7, <2>1 DEF KeepsWish
<1>15. \A d \in In(W[1]) \ cutShort' : Agrees(d, W[1])'
  <2>1. In(W[1]) \subseteq Chan
    BY DEF In
  <2> QED BY <1>11, <1>13, <2>1
<1>16. W[1].me = currentNick' /\ \A d \in Chan : Clean(d)'
  BY <1>3, <1>5, <1>7, <1>11, <1>12
<1> QED BY <1>1, <1>2, <1>14, <1>15, <1>16, Handles

LEMMA HandlesEnd == ASSUME SessionInv, OnNamesEnd PROVE ViewInv'
<1>1. PICK W : WireInv(W)
  BY DEF SessionInv, ViewInv
<1>2. Dispatch("366")
  BY DEF OnNamesEnd
<1>3. /\ wire # <<>> /\ wire[1][1] = "366" /\ phase = "on" /\ phase' = "on"
      /\ Step(W[0], wire[1], W[1]) /\ W[0].me = currentNick
      /\ \A d \in Chan : Clean(d)
  BY <1>1, <1>2, Handling
<1>4. Tells(W[0], wire[1], W[1])
  BY <1>3, Kinds
<1>5. PICK c \in Chan : wire[1] = <<"366", c>>
  BY <1>3, <1>4 DEF Tells
<1>6. wire[1][2] = c /\ W[1] = W[0]
  BY <1>4, <1>5 DEF Tells
<1>7. /\ complete' = complete \cup ({c} \cap joined)
      /\ UNCHANGED <<joined, names, cutShort, wanted, adrift, client, currentNick>>
  BY <1>6 DEF OnNamesEnd
<1>8. ASSUME NEW d \in Chan \ {c}
      PROVE  (d \in In(W[1]) \ cutShort' => Agrees(d, W[1])') /\ Clean(d)'
  <2>1. SameChannel(W[0], W[1], d) /\ W[1].me = W[0].me
    BY <1>6 DEF SameChannel
  <2>2. ~(wire[1][1] \in {"353", "366"} /\ wire[1][2] = d)
    BY <1>6
  <2> QED BY <1>1, <1>3, <1>7, <2>1, <2>2, Elsewhere
<1>9. Clean(c)'
  BY <1>3, <1>7 DEF Clean
<1>10. ASSUME c \in In(W[1]) \ cutShort' PROVE Agrees(c, W[1])'
  <2>1. Agrees(c, W[0])
    BY <1>1, <1>3, <1>6, <1>7, <1>10 DEF WireInv
  <2>2. c \in joined /\ Faithful(c, names[c], W[0])
    BY <1>3, <2>1 DEF Agrees, Pictured
  <2> QED BY <1>6, <1>7, <2>2 DEF Agrees, Pictured
<1>11. ASSUME NEW d \in Chan PROVE ~Decides(W[0], wire[1], d) /\ KeepsWish(d)
  <2>1. ~Decides(W[0], wire[1], d)
    BY <1>3, Undeciding
  <2> QED BY <1>7, <2>1 DEF KeepsWish
<1>12. \A d \in In(W[1]) \ cutShort' : Agrees(d, W[1])'
  <2>1. In(W[1]) \subseteq Chan
    BY DEF In
  <2> QED BY <1>8, <1>10, <2>1
<1>13. W[1].me = currentNick' /\ \A d \in Chan : Clean(d)'
  BY <1>3, <1>6, <1>7, <1>8, <1>9
<1> QED BY <1>1, <1>2, <1>11, <1>12, <1>13, Handles

(* Lines that leave the members as they are.                               *)
LEMMA ViewsStay ==
    ASSUME SessionInv, NEW W, WireInv(W), NEW kind \in {"474", "433", "PONG"}, Dispatch(kind),
           W[1] = W[0], UNCHANGED <<joined, names, complete, cutShort, currentNick>>
    PROVE  /\ W[1].me = currentNick'
           /\ \A d \in In(W[1]) \ cutShort' : Agrees(d, W[1])'
           /\ \A d \in Chan : Clean(d)'
<1>1. /\ wire # <<>> /\ wire[1][1] = kind /\ phase = "on" /\ W[0].me = currentNick
      /\ \A d \in Chan : Clean(d)
  BY Handling
<1>2. ASSUME NEW d \in Chan
      PROVE  (d \in In(W[1]) \ cutShort' => Agrees(d, W[1])') /\ Clean(d)'
  <2>1. SameChannel(W[0], W[1], d) /\ W[1].me = W[0].me
    BY DEF SameChannel
  <2>2. ~(wire[1][1] \in {"353", "366"} /\ wire[1][2] = d)
    BY <1>1
  <2> QED BY <1>1, <2>1, <2>2, Elsewhere
<1>3. In(W[1]) \subseteq Chan
  BY DEF In
<1> QED BY <1>1, <1>2, <1>3

LEMMA HandlesFailure == ASSUME SessionInv, handleJoinFailure PROVE ViewInv'
<1>1. PICK W : WireInv(W)
  BY DEF SessionInv, ViewInv
<1>2. Dispatch("474")
  BY DEF handleJoinFailure
<1>3. wire[1][1] = "474" /\ Step(W[0], wire[1], W[1])
  BY <1>1, <1>2, Handling
<1>4. Bars(W[0], wire[1], W[1])
  BY <1>3, Kinds
<1>5. PICK c \in Chan : wire[1] = <<"474", c>> /\ c \notin In(W[0]) /\ W[1] = W[0]
  BY <1>4 DEF Bars
<1>6. wire[1][2] = c
  BY <1>5
<1>7. /\ wanted' = wanted \ {c} /\ adrift' = adrift \ {c} /\ Overtakes("474", c)
      /\ UNCHANGED <<joined, names, complete, cutShort, currentNick>>
  BY <1>6 DEF handleJoinFailure
<1>8. /\ client'.channel = client.channel /\ client'.command = client.command
      /\ c \in client.channel => (client'.passed <=> client.command = "JOIN")
      /\ \A d \in Chan \ {c} : d \in client.channel => client' = client
  BY <1>7, OvertakesOne
<1>9. ASSUME NEW d \in Chan
      PROVE  \/ ~Decides(W[0], wire[1], d) /\ KeepsWish(d)
             \/ SettlesWish(d, d \in In(W[1]))
  <2>1. CASE d = c
    BY <1>5, <1>7, <1>8, <2>1 DEF SettlesWish
  <2>2. CASE d # c
    <3>1. ~Decides(W[0], wire[1], d)
      BY <1>3, <1>6, <2>2, Undeciding
    <3> QED BY <1>7, <1>8, <2>2, <3>1 DEF KeepsWish
  <2> QED BY <2>1, <2>2
<1>10. /\ W[1].me = currentNick'
       /\ \A d \in In(W[1]) \ cutShort' : Agrees(d, W[1])'
       /\ \A d \in Chan : Clean(d)'
  BY <1>1, <1>2, <1>5, <1>7, ViewsStay
<1> QED BY <1>1, <1>2, <1>9, <1>10, Handles

LEMMA HandlesRest ==
    ASSUME SessionInv, NEW kind \in {"PONG", "433"}, Dispatch(kind),
           UNCHANGED <<joined, names, complete, cutShort, wanted, adrift, client, currentNick>>
    PROVE  ViewInv'
<1>1. PICK W : WireInv(W)
  BY DEF SessionInv, ViewInv
<1>2. wire[1][1] = kind /\ Step(W[0], wire[1], W[1])
  BY <1>1, Handling
<1>3. W[1] = W[0]
  BY <1>2, Kinds DEF Tells
<1>4. ASSUME NEW d \in Chan PROVE ~Decides(W[0], wire[1], d) /\ KeepsWish(d)
  <2>1. ~Decides(W[0], wire[1], d)
    BY <1>2, Undeciding
  <2> QED BY <2>1 DEF KeepsWish
<1>5. /\ W[1].me = currentNick'
      /\ \A d \in In(W[1]) \ cutShort' : Agrees(d, W[1])'
      /\ \A d \in Chan : Clean(d)'
  BY <1>1, <1>3, ViewsStay
<1> QED BY <1>1, <1>4, <1>5, Handles

LEMMA DispatcherKeepsViews == ASSUME SessionInv, Dispatcher PROVE ViewInv'
<1>1. ASSUME Ack PROVE ViewInv'
  BY <1>1, HandlesRest DEF Ack
<1>2. ASSUME Refused PROVE ViewInv'
  BY <1>2, HandlesRest DEF Refused
<1> QED BY <1>1, <1>2, HandlesJoin, HandlesPart, HandlesQuit, HandlesKick, HandlesNick,
        HandlesMode, HandlesNames, HandlesEnd, HandlesFailure DEF Dispatcher

-----------------------------------------------------------------------------
(* The handshake.                                                          *)

LEMMA CleanAsBefore ==
    ASSUME CleanInv, phase # "on", UNCHANGED viewVars
    PROVE  CleanInv'
<1>1. ASSUME NEW c \in Chan PROVE Clean(c)'
  BY DEF CleanInv, Clean, viewVars
<1> QED BY <1>1 DEF CleanInv

LEMMA FallbackViews == ASSUME SessionInv, Fallback PROVE ViewInv'
<1>1. PICK W : WireInv(W)
  BY DEF SessionInv, ViewInv
<1>2. /\ wire # <<>> /\ wire[1][1] = "433" /\ wire' = Tail(wire) /\ UNCHANGED <<link, serverVars>>
      /\ phase = "registering" /\ phase' = "registering" /\ UNCHANGED viewVars
  BY DEF Fallback, Reads
<1>3. Step(W[0], wire[1], W[1])
  BY <1>1, <1>2, FirstLine
<1>4. W[1] = W[0]
  BY <1>2, <1>3, Kinds DEF Tells
<1>5. W[1].me = NoNick
  BY <1>1, <1>2, <1>4 DEF WireInv
<1>6. \E U : WireInv(U)'
  BY <1>1, <1>2, <1>5, Hear
<1>7. CleanInv'
  BY <1>2, CleanAsBefore DEF SessionInv, ViewInv
<1> QED BY <1>6, <1>7 DEF ViewInv

(* Every channel of a set is asked for.                                    *)
LEMMA Listed ==
    ASSUME NEW S \in SUBSET Chan, NEW c \in S
    PROVE  \E i \in DOMAIN SetToSeq(S) : SetToSeq(S)[i] = c
<1>1. IsFiniteSet(S)
  BY ChanAssumption, FS_Subset
<1> QED BY <1>1, SetToSeqIsOnto

LEMMA Appended ==
    ASSUME NEW before \in Seq(Commands), NEW asked \in Seq(Commands), NEW x,
           (\E i \in 1..Len(before) : before[i] = x) \/ \E i \in DOMAIN asked : asked[i] = x
    PROVE  \E i \in 1..Len(before \o asked) : (before \o asked)[i] = x
<1>1. ASSUME NEW i \in 1..Len(before), before[i] = x
      PROVE  i \in 1..Len(before \o asked) /\ (before \o asked)[i] = x
  BY <1>1
<1>2. ASSUME NEW i \in DOMAIN asked, asked[i] = x
      PROVE  /\ Len(before) + i \in 1..Len(before \o asked)
             /\ (before \o asked)[Len(before) + i] = x
  <2>1. DOMAIN asked = 1..Len(asked)
    OBVIOUS
  <2> QED BY <1>2, <2>1
<1> QED BY <1>1, <1>2

LEMMA RejoinViews == ASSUME SessionInv, Rejoin PROVE ViewInv'
<1>1. PICK W : WireInv(W)
  BY DEF SessionInv, ViewInv
<1>2. /\ wire # <<>> /\ wire[1][1] = "001" /\ wire' = Tail(wire) /\ UNCHANGED <<link, serverVars>>
      /\ phase = "registering" /\ phase' = "rejoined" /\ currentNick' = wire[1][2]
      /\ adrift' = {} /\ UNCHANGED <<viewVars, wanted>>
  BY DEF Rejoin, Reads
<1>3. Step(W[0], wire[1], W[1])
  BY <1>1, <1>2, FirstLine
<1>4. PICK n \in Nick : wire[1] = <<"001", n>> /\ W[1].me = n /\ In(W[1]) = {}
  BY <1>2, <1>3, Kinds DEF Welcomes
<1>5. W[1].me = currentNick'
  BY <1>2, <1>4
<1>6. TypeOK /\ wanted \in SUBSET Chan
  BY DEF SessionInv, TypeOK
<1>7. ASSUME NEW c \in Chan, c \in client'.channel PROVE client'.passed
  <2>1. client' = [client EXCEPT !.passed = client.channel # {}]
    BY DEF Rejoin
  <2>2. client \in [command : {"none", "JOIN", "PART"}, channel : SUBSET Chan, passed : BOOLEAN]
    BY <1>6 DEF TypeOK
  <2>3. client'.channel = client.channel /\ client'.passed = (client.channel # {})
    BY <2>1, <2>2
  <2> QED BY <1>7, <2>3
<1>8. ASSUME link = "up", NEW c \in Chan, Undecided(W, wire, 1, c)
      PROVE  Meant(c)'
  <2> DEFINE asked == [i \in DOMAIN SetToSeq(wanted) |-> <<"JOIN", SetToSeq(wanted)[i]>>]
  <2>1. asked \in Seq(Commands) /\ out \in Seq(Commands)
    BY <1>6, WantedTypes DEF TypeOK
  <2>2. out' = out \o asked
    BY <1>8 DEF Rejoin, Sent
  <2>3. ASSUME c \in wanted PROVE \E i \in 1..Len(out') : out'[i] = <<"JOIN", c>>
    <3>1. /\ DOMAIN asked = DOMAIN SetToSeq(wanted)
          /\ \A i \in DOMAIN asked : asked[i] = <<"JOIN", SetToSeq(wanted)[i]>>
      OBVIOUS
    <3> HIDE DEF asked
    <3>2. \E i \in DOMAIN asked : asked[i] = <<"JOIN", c>>
      <4>1. PICK i \in DOMAIN SetToSeq(wanted) : SetToSeq(wanted)[i] = c
        BY <1>6, <2>3, Listed
      <4> QED BY <3>1, <4>1
    <3> QED BY <2>1, <2>2, <3>2, Appended
  <2>4. c \notin Here
    <3>1. c \notin In(W[Len(wire)])
      BY <1>1, <1>2, <1>4, <1>8, StillUndecided
    <3>2. W[Len(wire)] = Now /\ In(Now) = Here
      BY <1>1, <1>6, <1>8, NowFacts DEF WireInv
    <3> QED BY <3>1, <3>2
  <2>5. c \notin Here'
    BY <1>2, <2>4 DEF Here, serverVars
  <2>6. CASE c \in client'.channel
    BY <1>7, <2>6 DEF Meant
  <2>7. CASE c \notin client'.channel /\ c \in wanted
    BY <1>2, <2>3, <2>7 DEF Meant, Fits
  <2>8. CASE c \notin client'.channel /\ c \notin wanted
    BY <1>2, <2>5, <2>8 DEF Meant, Fits
  <2> QED BY <2>6, <2>7, <2>8
<1>9. \E U : WireInv(U)'
  BY <1>1, <1>2, <1>4, <1>5, <1>8, Hear
<1>10. CleanInv'
  BY <1>2, CleanAsBefore DEF SessionInv, ViewInv
<1> QED BY <1>9, <1>10 DEF ViewInv

LEMMA RegisteredViews == ASSUME SessionInv, Registered PROVE ViewInv'
<1>1. PICK W : WireInv(W)
  BY DEF SessionInv, ViewInv
<1>2. /\ phase = "rejoined" /\ phase' = "on"
      /\ UNCHANGED <<link, out, wire, serverVars, currentNick, viewVars, wanted, client, adrift>>
  BY DEF Registered, netVars, clientVars
<1>3. Now' = Now /\ Here' = Here
  BY <1>2, NowSame DEF serverVars
<1>4. In(W[0]) = {} /\ W[0].me = currentNick
  BY <1>1, <1>2 DEF WireInv
<1>5. ASSUME NEW c \in Chan, Meant(c) PROVE Meant(c)'
  BY <1>2, <1>3, <1>5 DEF Meant, Fits
<1>6. link' = "up" => \A c \in Chan \ adrift' : Undecided(W, wire', 0, c) => Meant(c)'
  BY <1>1, <1>2, <1>5 DEF WireInv
<1>7. Chain(W, wire') /\ (link' = "up" => W[Len(wire')] = Now')
  BY <1>1, <1>2, <1>3 DEF WireInv
<1>8. WireInv(W)'
  BY <1>2, <1>4, <1>6, <1>7, WireInvNext
<1>9. CleanInv'
  BY <1>2, CleanAsBefore DEF SessionInv, ViewInv
<1> QED BY <1>8, <1>9 DEF ViewInv

LEMMA SupervisorKeepsViews == ASSUME SessionInv, TypeOK', Supervisor PROVE ViewInv'
<1>1. TypeOK /\ PlaceInv /\ CleanInv
  BY DEF SessionInv, ViewInv
<1>2. ASSUME Exhausted \/ Fails PROVE ViewInv'
  BY <1>1, <1>2, GiveUpViews DEF Exhausted, Fails
<1> QED BY <1>1, <1>2, RegisterViews, FallbackViews, RejoinViews, RegisteredViews DEF Supervisor

-----------------------------------------------------------------------------
(* The other threads, and what is asked for.                               *)

(* Nothing is told, and nobody is asked but the server.                    *)
LEMMA JustAsks ==
    ASSUME TypeOK, ViewInv, wire' = wire, Untouched, UNCHANGED <<link, serverVars>>,
           NEW commands \in Seq(Commands), out' = out \/ out' = Sent(commands)
    PROVE  ViewInv'
<1>1. Now' = Now /\ Here' = Here
  BY NowSame DEF serverVars
<1>2. ASSUME link' = "up", NEW c \in Chan, NEW want \in BOOLEAN, Fits(want, c)
      PROVE  Fits(want, c)'
  <2>1. out \in Seq(Commands) /\ (out' = out \/ out' = out \o commands)
    BY <1>2 DEF TypeOK, Sent
  <2> QED BY <1>1, <1>2, <2>1, AsksMore, AsksTheSame
<1> QED BY <1>1, <1>2, SaysNothing

LEMMA WorkersKeepViews ==
    ASSUME SessionInv, ReclaimTick \/ Reclaim \/ Ping
    PROVE  ViewInv'
<1>1. TypeOK /\ ViewInv
  BY DEF SessionInv
<1>2. wire' = wire /\ Untouched /\ UNCHANGED <<link, serverVars>>
  BY DEF ReclaimTick, Reclaim, Ping, Untouched, netVars, nickVars, clientVars
<1>3. CASE ReclaimTick
  <2>1. out' = out /\ <<>> \in Seq(Commands)
    BY <1>3 DEF ReclaimTick, netVars
  <2> QED BY <1>1, <1>2, <2>1, JustAsks
<1>4. CASE Reclaim
  <2>1. out' = Sent(<<<<"NICK", reclaim>>>>) /\ reclaim \in Nick
    BY <1>1, <1>4 DEF Reclaim, TypeOK
  <2>2. <<<<"NICK", reclaim>>>> \in Seq(Commands)
    BY <2>1, CommandsAre
  <2> QED BY <1>1, <1>2, <2>1, <2>2, JustAsks
<1>5. CASE Ping
  <2>1. CASE out' = out
    <3>1. <<>> \in Seq(Commands)
      OBVIOUS
    <3> QED BY <1>1, <1>2, <2>1, <3>1, JustAsks
  <2>2. CASE \E t \in pinging : out' = Sent(<<<<"PING", t>>>>)
    <3>1. PICK t \in pinging : out' = Sent(<<<<"PING", t>>>>)
      BY <2>2
    <3>2. <<<<"PING", t>>>> \in Seq(Commands)
      BY <1>1, CommandsAre DEF TypeOK
    <3> QED BY <1>1, <1>2, <3>1, <3>2, JustAsks
  <2> QED BY <1>5, <2>1, <2>2 DEF Ping
<1> QED BY <1>3, <1>4, <1>5

(* What is wanted, or will be, changes for some channels only.             *)
LEMMA WishesChange ==
    ASSUME TypeOK, ViewInv, UNCHANGED <<wire, link, serverVars, phase, currentNick, viewVars>>,
           link = "up" /\ phase \in {"rejoined", "on"} =>
              \A c \in Chan \ adrift' : (c \notin adrift => Meant(c)) => Meant(c)'
    PROVE  ViewInv'
<1>1. PICK W : WireInv(W)
  BY DEF ViewInv
<1>2. Now' = Now
  BY NowSame DEF serverVars
<1>3. WireInv(W)'
  BY <1>1, <1>2, SayNothing
<1>4. CleanInv'
  BY CleanStays DEF ViewInv
<1> QED BY <1>3, <1>4 DEF ViewInv

LEMMA ForwardsViews ==
    ASSUME SessionInv, NEW kind \in {"JOIN", "PART"}, NEW c \in Chan, Forwards(kind, c)
    PROVE  ViewInv'
<1>1. TypeOK /\ ViewInv
  BY DEF SessionInv
<1>2. /\ UNCHANGED <<wire, link, serverVars, phase, currentNick, viewVars, wanted, adrift>>
      /\ out' = Sent(<<<<kind, c>>>>) /\ client.channel = {}
      /\ client' = [command |-> kind, channel |-> {c}, passed |-> FALSE]
  BY DEF Forwards, Command, Idle
<1>3. <<<<kind, c>>>> \in Seq(Commands)
  <2>1. <<kind, c>> \in Commands
    BY DEF Commands
  <2> QED BY <2>1
<1>4. Here' = Here
  BY <1>2 DEF Here, serverVars
<1>5. ASSUME link = "up", NEW d \in Chan \ adrift', d \notin adrift => Meant(d)
      PROVE  Meant(d)'
  <2>1. out \in Seq(Commands) /\ out' = out \o <<<<kind, c>>>>
    BY <1>1, <1>2, <1>5 DEF TypeOK, Sent
  <2>2. CASE d = c
    <3>1. \E i \in DOMAIN <<<<kind, c>>>> : <<<<kind, c>>>>[i] = <<kind, c>>
      <4>1. 1 \in DOMAIN <<<<kind, c>>>> /\ <<<<kind, c>>>>[1] = <<kind, c>>
        OBVIOUS
      <4> QED BY <4>1
    <3>2. \E i \in 1..Len(out') : out'[i] = <<kind, c>>
      <4>1. PICK asked \in Seq(Commands) : asked = <<<<kind, c>>>>
        BY <1>3
      <4> QED BY <2>1, <3>1, <4>1, Appended
    <3>3. Fits(kind = "JOIN", c)'
      BY <3>2 DEF Fits
    <3> QED BY <1>2, <2>2, <3>2 DEF Meant, Fits
  <2>3. CASE d # c
    <3>1. Fits(d \in wanted, d)
      BY <1>2, <1>5 DEF Meant
    <3>2. ASSUME NEW want \in BOOLEAN, Fits(want, d) PROVE Fits(want, d)'
      BY <1>3, <1>4, <2>1, <3>2, AsksMore
    <3>3. (d \in wanted) \in BOOLEAN
      OBVIOUS
    <3>4. PICK want \in BOOLEAN : want = (d \in wanted)
      BY <3>3
    <3>5. Fits(want, d)'
      BY <3>1, <3>2, <3>4
    <3>6. want = (d \in wanted')
      BY <1>2, <3>4
    <3> QED BY <1>2, <2>3, <3>5, <3>6 DEF Meant, Fits
  <2> QED BY <2>2, <2>3
<1> QED BY <1>1, <1>2, <1>5, WishesChange

LEMMA RecordsViews == ASSUME SessionInv, Records PROVE ViewInv'
<1>1. TypeOK /\ ViewInv
  BY DEF SessionInv
<1>2. /\ UNCHANGED <<wire, link, out, serverVars, phase, currentNick, viewVars>>
      /\ client # Idle /\ client' = Idle /\ Changed(client.command, client.channel)
      /\ adrift' = IF client.passed THEN adrift \cup client.channel ELSE adrift
  BY DEF Records, netVars, nickVars
<1>3. PICK c \in Chan : client.channel = {c}
  BY <1>2 DEF SessionInv, PlaceInv
<1>4. Here' = Here
  BY <1>2 DEF Here, serverVars
<1>5. ASSUME NEW d \in Chan \ adrift', d \notin adrift => Meant(d)
      PROVE  Meant(d)'
  <2>1. Meant(d)
    BY <1>2, <1>5
  <2>2. CASE d = c
    <3>1. ~client.passed
      BY <1>2, <1>3, <1>5, <2>2
    <3>2. d \in wanted' <=> client.command = "JOIN"
      BY <1>2, <1>3, <2>2 DEF Changed
    <3>3. Fits(client.command = "JOIN", d)
      BY <1>3, <2>1, <2>2, <3>1 DEF Meant
    <3> QED BY <1>2, <1>4, <3>2, <3>3 DEF Meant, Fits, Idle
  <2>3. CASE d # c
    <3>1. d \in wanted' <=> d \in wanted
      BY <1>2, <1>3, <2>3 DEF Changed
    <3>2. Fits(d \in wanted, d)
      BY <1>3, <2>1, <2>3 DEF Meant
    <3> QED BY <1>2, <1>4, <3>1, <3>2 DEF Meant, Fits, Idle
  <2> QED BY <2>2, <2>3
<1> QED BY <1>1, <1>2, <1>5, WishesChange

LEMMA DetachedViews ==
    ASSUME SessionInv, NEW kind \in {"JOIN", "PART"}, NEW c \in Chan, Detached(kind, c)
    PROVE  ViewInv'
<1>1. TypeOK /\ ViewInv
  BY DEF SessionInv
<1>2. /\ UNCHANGED <<wire, link, out, serverVars, phase, currentNick, viewVars, client>>
      /\ client = Idle /\ phase # "on" /\ Changed(kind, {c})
      /\ adrift' = IF phase = "rejoined" THEN adrift \cup {c} ELSE adrift
  BY DEF Detached, Command, clientVars
<1>3. Here' = Here
  BY <1>2 DEF Here, serverVars
<1>4. ASSUME phase = "rejoined", NEW d \in Chan \ adrift', d \notin adrift => Meant(d)
      PROVE  Meant(d)'
  <2>1. d # c /\ Meant(d)
    BY <1>2, <1>4
  <2>2. d \in wanted' <=> d \in wanted
    BY <1>2, <2>1 DEF Changed
  <2> QED BY <1>2, <1>3, <2>1, <2>2 DEF Meant, Fits, Idle
<1>5. phase \in {"rejoined", "on"} =>
         \A d \in Chan \ adrift' : (d \notin adrift => Meant(d)) => Meant(d)'
  BY <1>2, <1>4
<1> QED BY <1>1, <1>2, <1>5, WishesChange

LEMMA ApplyNickViews == ASSUME SessionInv, TypeOK', NEW n \in Nick, ApplyNick(n) PROVE ViewInv'
<1>1. TypeOK /\ PlaceInv /\ ViewInv
  BY DEF SessionInv
<1>2. /\ UNCHANGED <<wire, link, serverVars, currentNick, viewVars, wanted, client, adrift>>
      /\ out' = (IF phase = "on" THEN Sent(<<<<"NICK", n>>>>) ELSE out)
      /\ phase' = (IF phase = "invalid" THEN "down" ELSE phase)
  BY DEF ApplyNick, Command, clientVars
<1>3. CASE phase = "invalid"
  <2>1. wire' = <<>> /\ phase' = "down"
    BY <1>1, <1>2, <1>3 DEF PlaceInv
  <2>2. \E W : WireInv(W)'
    BY <2>1, LevelWithServer
  <2>3. CleanInv'
    BY <1>1, <1>2, <1>3, CleanAsBefore DEF ViewInv
  <2> QED BY <2>2, <2>3 DEF ViewInv
<1>4. CASE phase # "invalid"
  <2>1. Untouched /\ (out' = out \/ out' = Sent(<<<<"NICK", n>>>>))
    BY <1>2, <1>4 DEF Untouched
  <2>2. <<<<"NICK", n>>>> \in Seq(Commands)
    BY CommandsAre
  <2> QED BY <1>1, <1>2, <2>1, <2>2, JustAsks
<1> QED BY <1>3, <1>4

LEMMA AskedKeepsViews == ASSUME SessionInv, TypeOK', Asked PROVE ViewInv'
<1>1. TypeOK /\ ViewInv
  BY DEF SessionInv
<1>2. ASSUME NEW command \in Commands, SendRaw(command) PROVE ViewInv'
  <2>1. wire' = wire /\ Untouched /\ UNCHANGED <<link, serverVars>> /\ out' = Sent(<<command>>)
    BY <1>2 DEF SendRaw, Command, Untouched, clientVars
  <2>2. <<command>> \in Seq(Commands)
    OBVIOUS
  <2> QED BY <1>1, <2>1, <2>2, JustAsks
<1>3. ASSUME NEW n \in Nick, DetachedNick(n) PROVE ViewInv'
  <2>1. wire' = wire /\ Untouched /\ UNCHANGED <<link, serverVars>> /\ out' = out
    BY <1>3 DEF DetachedNick, Command, Untouched, clientVars
  <2>2. <<>> \in Seq(Commands)
    OBVIOUS
  <2> QED BY <1>1, <2>1, <2>2, JustAsks
<1>4. ASSUME NEW desired \in SUBSET Chan, ReconcileChannels(desired) PROVE ViewInv'
  <2>1. wire' = wire /\ Untouched /\ UNCHANGED <<link, serverVars>> /\ out' = out
    BY <1>4 DEF ReconcileChannels, Command, Untouched
  <2>2. <<>> \in Seq(Commands)
    OBVIOUS
  <2> QED BY <1>1, <2>1, <2>2, JustAsks
<1>5. ASSUME NEW c \in Chan, NEW kind \in {"JOIN", "PART"},
             Forwards(kind, c) \/ Detached(kind, c) \/ SendRaw(<<kind, c>>)
      PROVE  ViewInv'
  <2>1. <<kind, c>> \in Commands
    BY DEF Commands
  <2> QED BY <1>2, <1>5, <2>1, ForwardsViews, DetachedViews
<1>6. ASSUME NEW n \in Nick, DetachedNick(n) \/ ApplyNick(n) \/ SendRaw(<<"NICK", n>>)
      PROVE  ViewInv'
  BY <1>2, <1>3, <1>6, CommandsAre, ApplyNickViews
<1> QED BY <1>4, <1>5, <1>6 DEF Asked

(* Channels that come and go in an update are asked for, or adrift.        *)
LEMMA ReconcilesViews == ASSUME SessionInv, Reconciles PROVE ViewInv'
<1> DEFINE gone == SetToSeq(wanted \ reconcile.desired)
           new == SetToSeq(reconcile.desired \ wanted)
           parts == [i \in DOMAIN gone |-> <<"PART", gone[i]>>]
           joins == [i \in DOMAIN new |-> <<"JOIN", new[i]>>]
<1>1. TypeOK /\ ViewInv /\ PlaceInv
  BY DEF SessionInv
<1>2. /\ UNCHANGED <<wire, link, serverVars, phase, currentNick, viewVars, client>>
      /\ wanted' = reconcile.desired
      /\ adrift' = IF ~reconcile.registered /\ phase \in {"rejoined", "on"}
                   THEN adrift \cup {c \in Chan : (c \in wanted) # (c \in reconcile.desired)}
                   ELSE adrift
      /\ out' = (IF reconcile.registered THEN Sent(parts \o joins) ELSE out)
  BY DEF Reconciles, nickVars
<1>3. /\ wanted \ reconcile.desired \in SUBSET Chan /\ reconcile.desired \ wanted \in SUBSET Chan
      /\ out \in Seq(Commands)
  BY <1>1 DEF TypeOK
<1>4. parts \in Seq(Commands) /\ joins \in Seq(Commands)
  <2>1. ASSUME NEW S \in SUBSET Chan
        PROVE  /\ [i \in DOMAIN SetToSeq(S) |-> <<"PART", SetToSeq(S)[i]>>] \in Seq(Commands)
               /\ [i \in DOMAIN SetToSeq(S) |-> <<"JOIN", SetToSeq(S)[i]>>] \in Seq(Commands)
    BY <1>1, WantedTypes
  <2> QED BY <1>3, <2>1
<1>5. /\ \A c \in wanted \ reconcile.desired : \E i \in DOMAIN parts : parts[i] = <<"PART", c>>
      /\ \A c \in reconcile.desired \ wanted : \E i \in DOMAIN joins : joins[i] = <<"JOIN", c>>
  <2>1. /\ DOMAIN parts = DOMAIN gone /\ \A i \in DOMAIN parts : parts[i] = <<"PART", gone[i]>>
        /\ DOMAIN joins = DOMAIN new /\ \A i \in DOMAIN joins : joins[i] = <<"JOIN", new[i]>>
    OBVIOUS
  <2> HIDE DEF parts, joins
  <2>2. ASSUME NEW c \in wanted \ reconcile.desired
        PROVE  \E i \in DOMAIN parts : parts[i] = <<"PART", c>>
    <3>1. PICK i \in DOMAIN gone : gone[i] = c
      BY <1>3, Listed
    <3> QED BY <2>1, <3>1
  <2>3. ASSUME NEW c \in reconcile.desired \ wanted
        PROVE  \E i \in DOMAIN joins : joins[i] = <<"JOIN", c>>
    <3>1. PICK i \in DOMAIN new : new[i] = c
      BY <1>3, Listed
    <3> QED BY <2>1, <3>1
  <2> QED BY <2>2, <2>3
<1> HIDE DEF parts, joins
<1>6. Here' = Here
  BY <1>2 DEF Here, serverVars
<1>7. ASSUME link = "up", phase \in {"rejoined", "on"}, NEW c \in Chan \ adrift',
             c \notin adrift => Meant(c)
      PROVE  Meant(c)'
  <2>1. Meant(c)
    BY <1>2, <1>7
  <2>2. CASE ~reconcile.registered
    <3>1. (c \in wanted' <=> c \in wanted) /\ out' = out
      BY <1>2, <1>7, <2>2
    <3> QED BY <1>2, <1>6, <2>1, <3>1 DEF Meant, Fits
  <2>3. CASE reconcile.registered
    <3>1. parts \o joins \in Seq(Commands) /\ out' = out \o (parts \o joins)
      BY <1>2, <1>4, <1>7, <2>3 DEF Sent
    <3>2. \A x : (\E i \in DOMAIN parts : parts[i] = x) \/ (\E i \in DOMAIN joins : joins[i] = x)
                 => \E i \in 1..Len(out') : out'[i] = x
      <4>1. TAKE x
      <4>2. DOMAIN parts = 1..Len(parts) /\ DOMAIN (parts \o joins) = 1..Len(parts \o joins)
        BY <1>4, <3>1
      <4>3. ASSUME (\E i \in 1..Len(parts) : parts[i] = x) \/ \E i \in DOMAIN joins : joins[i] = x
            PROVE  \E i \in 1..Len(out') : out'[i] = x
        <5>1. \E i \in 1..Len(parts \o joins) : (parts \o joins)[i] = x
          BY <1>4, <4>3, Appended
        <5> QED BY <1>3, <3>1, <4>2, <5>1, Appended
      <4> QED BY <4>2, <4>3
    <3>3. CASE c \in client.channel
      <4>1. ASSUME NEW want \in BOOLEAN, Fits(want, c) PROVE Fits(want, c)'
        BY <1>3, <1>6, <3>1, <4>1, AsksMore
      <4>2. PICK want \in BOOLEAN : want = (client.command = "JOIN")
        OBVIOUS
      <4>3. client.passed \/ Fits(want, c)'
        BY <2>1, <3>3, <4>1, <4>2 DEF Meant
      <4> QED BY <1>2, <3>3, <4>2, <4>3 DEF Meant, Fits
    <3>4. CASE c \notin client.channel
      <4>1. CASE c \in wanted \ reconcile.desired
        <5>1. \E i \in 1..Len(out') : out'[i] = <<"PART", c>>
          BY <1>5, <3>2, <4>1
        <5> QED BY <1>2, <3>4, <4>1, <5>1 DEF Meant, Fits
      <4>2. CASE c \in reconcile.desired \ wanted
        <5>1. \E i \in 1..Len(out') : out'[i] = <<"JOIN", c>>
          BY <1>5, <3>2, <4>2
        <5> QED BY <1>2, <3>4, <4>2, <5>1 DEF Meant, Fits
      <4>3. CASE c \in wanted <=> c \in reconcile.desired
        <5>1. ASSUME NEW want \in BOOLEAN, Fits(want, c) PROVE Fits(want, c)'
          BY <1>3, <1>6, <3>1, <5>1, AsksMore
        <5>a. (c \in wanted) \in BOOLEAN
          OBVIOUS
        <5>2. PICK want \in BOOLEAN : want = (c \in wanted)
          BY <5>a
        <5>3. Fits(want, c)'
          BY <2>1, <3>4, <5>1, <5>2 DEF Meant
        <5>4. want = (c \in wanted')
          BY <1>2, <4>3, <5>2
        <5> QED BY <1>2, <3>4, <5>3, <5>4 DEF Meant, Fits
      <4> QED BY <4>1, <4>2, <4>3
    <3> QED BY <3>3, <3>4
  <2> QED BY <2>2, <2>3
<1> QED BY <1>1, <1>2, <1>7, WishesChange

-----------------------------------------------------------------------------
(* Every step of the session keeps its invariant.                          *)

LEMMA ServerInvKeptByAll == ASSUME TypeOK, ServerInv, Next PROVE ServerInv'
<1>1. CASE Server \/ Others
  BY <1>1, ServerInvKept
<1>2. ASSUME UNCHANGED serverVars PROVE ServerInv'
  BY <1>2, ServerInvStays DEF serverVars
<1>3. ASSUME NEW there, GiveUp(there) PROVE ServerInv'
  BY <1>3, ServerInvStays DEF GiveUp
<1>4. ASSUME NEW how, Breaks(how) PROVE ServerInv'
  BY <1>4, ServerInvStays DEF Breaks
<1>5. CASE Supervisor
  BY <1>2, <1>3, <1>5 DEF Supervisor, Register, Fallback, Exhausted, Rejoin, Registered, Fails
<1>6. CASE Dispatcher
  BY <1>2, <1>6 DEF Dispatcher, handleJoin, handlePart, handleQuit, handleKick, handleNickChange,
     handleMode, OnNamesReply, OnNamesEnd, handleJoinFailure, Ack, Refused, Dispatch
<1>7. CASE ReclaimTick \/ Reclaim \/ Ping \/ Records \/ Reconciles
  BY <1>2, <1>7 DEF ReclaimTick, Reclaim, Ping, Records, Reconciles
<1>8. CASE Asked
  BY <1>2, <1>8 DEF Asked, Forwards, Detached, SendRaw, DetachedNick, ApplyNick,
     ReconcileChannels, Command
<1>9. CASE PongTimeout
  BY <1>3, <1>9 DEF PongTimeout
<1> QED BY <1>1, <1>4, <1>5, <1>6, <1>7, <1>8, <1>9 DEF Next

LEMMA SessionInvKept == ASSUME SessionInv, Next PROVE SessionInv'
<1>1. TypeOK /\ ServerInv /\ PlaceInv /\ ViewInv /\ CleanInv
  BY DEF SessionInv, ViewInv
<1>2. TypeOK' /\ ServerInv' /\ PlaceInv'
  BY <1>1, TypesAreKept, ServerInvKeptByAll, PlaceInvKept
<1>3. ViewInv'
  <2>1. CASE PongTimeout
    BY <1>1, <1>2, <2>1, GiveUpViews DEF PongTimeout
  <2> QED BY <1>1, <1>2, <2>1, ServerKeepsViews, OthersKeepViews, BreaksViews,
             SupervisorKeepsViews, DispatcherKeepsViews, WorkersKeepViews, AskedKeepsViews,
             RecordsViews, ReconcilesViews DEF Next
<1> QED BY <1>2, <1>3 DEF SessionInv

(* A question is nothing to the session but a command less.                *)
LEMMA QuestionsLeaveSession ==
    ASSUME SessionInv, NEW q \in Query, Asks(q)
    PROVE  SessionInv'
<1>1. /\ left' \in [{"cuts", "commands", "events"} -> Nat]
      /\ UNCHANGED <<bounds, link, out, wire, serverVars, phase, nickVars, reclaim, viewVars,
                     wanted, pingVars, clientVars, adrift>>
  BY DEF Asks, Command, Spend, SessionInv, TypeOK, nickVars
<1>2. TypeOK /\ ServerInv /\ PlaceInv /\ ViewInv
  BY DEF SessionInv
<1>3. TypeOK'
  BY <1>1, <1>2 DEF TypeOK, serverVars, nickVars, viewVars, pingVars, clientVars
<1>4. ServerInv' /\ PlaceInv'
  BY <1>1, <1>2, ServerInvStays DEF PlaceInv, serverVars, nickVars, clientVars
<1>5. ViewInv'
  <2>1. Untouched /\ <<>> \in Seq(Commands)
    BY <1>1 DEF Untouched, nickVars, clientVars
  <2> QED BY <1>1, <1>2, <2>1, JustAsks
<1> QED BY <1>3, <1>4, <1>5 DEF SessionInv

LEMMA SessionInvStays == ASSUME SessionInv, UNCHANGED vars PROVE SessionInv'
<1>1. UNCHANGED <<bounds, left, link, out, wire, serverVars, phase, nickVars, reclaim, viewVars,
                  wanted, pingVars, clientVars, adrift>>
  BY DEF vars, netVars
<1>2. TypeOK /\ ServerInv /\ PlaceInv /\ ViewInv
  BY DEF SessionInv
<1>3. TypeOK'
  BY <1>1, <1>2 DEF TypeOK, serverVars, nickVars, viewVars, pingVars, clientVars
<1>4. ServerInv' /\ PlaceInv'
  BY <1>1, <1>2, ServerInvStays DEF PlaceInv, serverVars, nickVars, clientVars
<1>5. ViewInv'
  <2>1. Untouched /\ <<>> \in Seq(Commands)
    BY <1>1 DEF Untouched, nickVars, clientVars
  <2> QED BY <1>1, <1>2, <2>1, JustAsks
<1> QED BY <1>3, <1>4, <1>5 DEF SessionInv

LEMMA QueriesKeepSession ==
    ASSUME SessionInv, [QueryNext]_<<vars, queryVars>>
    PROVE  SessionInv'
<1>1. CASE SessionStep
  BY <1>1, SessionInvKept DEF SessionStep
<1>2. CASE \E q \in Query : registerWebQuery(q) \/ ClientAsks(q)
  BY <1>2, QuestionsLeaveSession DEF registerWebQuery, ClientAsks
<1>3. CASE UNCHANGED vars
  BY <1>3, SessionInvStays
<1> QED BY <1>1, <1>2, <1>3 DEF QueryNext, ServerAnswers, handleWhoisNumeric,
        handleWhoisNoSuchNick, handleWhoNumeric, handleListNumeric, Line

(* The invariant of a session holds, whoever asks what.                    *)
THEOREM SessionInvariant == QuerySpec => []SessionInv
<1>1. QueryInit => SessionInv
  BY FirstViews DEF QueryInit
<1>2. SessionInv /\ [QueryNext]_<<vars, queryVars>> => SessionInv'
  BY QueriesKeepSession
<1> QED BY <1>1, <1>2, PTL DEF QuerySpec

(* The state of the connector, of the server, and of what is between them
   keeps its type.                                                         *)
THEOREM SessionTypes == QuerySpec => []TypeOK
<1>1. SessionInv => TypeOK
  BY DEF SessionInv
<1> QED BY <1>1, SessionInvariant, PTL

(* With nothing on the wire the world the connector has is the server's.   *)
LEMMA LevelViews ==
    ASSUME SessionInv, wire = <<>>, link = "up", NEW W, WireInv(W)
    PROVE  W[0] = Now /\ Now.me = me /\ In(Now) = Here
<1>1. TypeOK
  BY DEF SessionInv
<1> QED BY <1>1, NowFacts DEF WireInv

(* The picture of ChannelState is that of the server once its lines are
   handled: our nick, the members of every channel we are in, and no operator
   who is not one (handleJoin .. handleMode, OnNamesReply, OnNamesEnd).    *)
THEOREM ViewIsRealHolds == QuerySpec => []ViewIsReal
<1>1. SessionInv => ViewIsReal
  <2> SUFFICES ASSUME SessionInv, phase = "on", link = "up", wire = <<>>
               PROVE  /\ currentNick = me
                      /\ \A c \in Here \ cutShort :
                            /\ c \in joined \cap complete /\ DOMAIN names[c] = members[c]
                            /\ \A n \in members[c] : names[c][n] \in {"~", "@"} =>
                                  \E letter \in {"q", "o"} : <<n, letter>> \in granted[c]
    BY DEF ViewIsReal
  <2>1. PICK W : WireInv(W)
    BY DEF SessionInv, ViewInv
  <2>2. W[0] = Now /\ Now.me = me /\ In(Now) = Here
    BY <2>1, LevelViews
  <2>3. currentNick = me
    BY <2>1, <2>2 DEF WireInv
  <2>4. ASSUME NEW c \in Here \ cutShort
        PROVE  /\ c \in joined \cap complete /\ DOMAIN names[c] = members[c]
               /\ \A n \in members[c] : names[c][n] \in {"~", "@"} =>
                     \E letter \in {"q", "o"} : <<n, letter>> \in granted[c]
    <3>1. Agrees(c, Now)
      BY <2>1, <2>2, <2>4 DEF WireInv
    <3>2. c \in complete /\ c \in joined /\ Faithful(c, names[c], Now)
      BY <3>1 DEF Agrees, Pictured
    <3>3. Now.members[c] = members[c] /\ Now.granted[c] = granted[c]
      BY <2>4, NowFacts DEF SessionInv, Here
    <3> QED BY <3>2, <3>3 DEF Faithful
  <2> QED BY <2>3, <2>4
<1> QED BY <1>1, SessionInvariant, PTL

(* At rest, what WantedChannels holds is what the server has us in: across
   reconnects, refusals, clients' commands and updates in any order (bringUp,
   handleJoin, handlePart, handleJoinFailure, reconcileChannels).          *)
THEOREM WantedIsJoinedHolds == QuerySpec => []WantedIsJoined
<1>1. SessionInv => WantedIsJoined
  <2> SUFFICES ASSUME SessionInv, phase = "on", link = "up", out = <<>>, wire = <<>>,
                      client = Idle, NEW c \in Chan \ adrift
               PROVE  c \in wanted <=> c \in Here
    BY DEF WantedIsJoined
  <2>1. PICK W : WireInv(W)
    BY DEF SessionInv, ViewInv
  <2>2. Undecided(W, wire, 0, c)
    BY DEF Undecided
  <2>3. Meant(c)
    BY <2>1, <2>2 DEF WireInv
  <2>4. Fits(c \in wanted, c)
    BY <2>3 DEF Meant, Idle
  <2> QED BY <2>4 DEF Fits
<1> QED BY <1>1, SessionInvariant, PTL

-----------------------------------------------------------------------------
(* Questions of browsers.                                                  *)

Reply == [query : Query, row : Row, first : BOOLEAN]

(* What has been collected when line k of an answer comes.                 *)
Offset(rows) == IF rows[1] = "start" THEN 1 ELSE 0
Before(rows, k) == [m \in 1..k - 1 - Offset(rows) |-> rows[m + Offset(rows)]]

(* From line k on the answer is in s, and ends there or goes on with another. *)
Leads(s, i, q, rows, k) ==
    /\ \A m \in k..Len(rows) :
          /\ i + m - k \in 1..Len(s)
          /\ s[i + m - k].query = q /\ s[i + m - k].row = rows[m]
          /\ s[i + m - k].first <=> m = 1
    /\ i + Len(rows) - k + 1 \in 1..Len(s) => s[i + Len(rows) - k + 1].first

Opens(s, q, rows, k) ==
    s # <<>> /\ s[1].query = q /\ s[1].row = rows[k] /\ (s[1].first <=> k = 1)
Starts(s) == s = <<>> \/ s[1].first

RepliesInv ==
    \A i \in 1..Len(replies) : \E q \in Query : \E rows \in Answers(q) : \E k \in 1..Len(rows) :
       Leads(replies, i, q, rows, k)

Tracked(q) == inFlight[q].marked \/ q[1] = "list"
Reading(q) == replies # <<>> /\ replies[1].query = q /\ ~replies[1].first

(* What is collected is what has come of an answer, or nothing.            *)
FlightInv ==
    \A q \in Query \ split : Tracked(q) =>
       IF Reading(q)
       THEN \E rows \in Answers(q) : \E k \in 1..Len(rows) :
               Leads(replies, 1, q, rows, k) /\ inFlight[q].rows = Before(rows, k)
       ELSE inFlight[q].rows = <<>>

QueryInv == QueryTypeOK /\ RepliesInv /\ FlightInv /\ ResultIsWhole

LEMMA AnswersAre ==
    ASSUME NEW q \in Query
    PROVE  \/ /\ q[1] = "whois" /\ Answers(q) = {<<"user", "row", "end">>, <<"gone">>}
              /\ Whole(q) = {<<"user", "row">>, <<"gone">>}
           \/ /\ q[1] = "who" /\ Answers(q) = {<<"row", "end">>}
              /\ Whole(q) = {<<"row">>}
           \/ /\ q[1] = "list"
              /\ Answers(q) = {<<"start", "row", "row", "end">>, <<"row", "row", "end">>}
              /\ Whole(q) = {<<"row", "row">>}
BY QueryAssumption DEF Answers, Whole

LEMMA AnswerLines ==
    ASSUME NEW q \in Query, NEW rows \in Answers(q)
    PROVE  /\ rows \in Seq(Row) /\ Len(rows) \in Nat \ {0}
           /\ \A m \in 1..Len(rows) :
                 /\ rows[m] \in {"end", "gone"} <=> m = Len(rows)
                 /\ rows[m] = "start" <=> m = 1 /\ Offset(rows) = 1
                 /\ rows[m] = "gone" => q[1] = "whois" /\ m = 1
                 /\ rows[m] = "user" => m = 1
           /\ Offset(rows) = 1 => Len(rows) > 1 /\ q[1] = "list"
           /\ Offset(rows) \in {0, 1}
<1>1. CASE rows = <<"user", "row", "end">> /\ q[1] = "whois"
  BY <1>1 DEF Row, Offset
<1>2. CASE rows = <<"gone">> /\ q[1] = "whois"
  BY <1>2 DEF Row, Offset
<1>3. CASE rows = <<"row", "end">>
  BY <1>3 DEF Row, Offset
<1>4. CASE rows = <<"start", "row", "row", "end">> /\ q[1] = "list"
  BY <1>4 DEF Row, Offset
<1>5. CASE rows = <<"row", "row", "end">>
  BY <1>5 DEF Row, Offset
<1> QED BY <1>1, <1>2, <1>3, <1>4, <1>5, AnswersAre

LEMMA BeforeLines ==
    ASSUME NEW q \in Query, NEW rows \in Answers(q), NEW k \in 1..Len(rows)
    PROVE  /\ Before(rows, k) \in Seq(Row)
           /\ k = 1 => Before(rows, k) = <<>>
           /\ rows[k] = "start" => Before(rows, k + 1) = <<>>
           /\ rows[k] # "start" => Before(rows, k + 1) = Append(Before(rows, k), rows[k])
<1> DEFINE o == Offset(rows)
           n == k - 1 - o
           b == Before(rows, k)
<1>1. /\ rows \in Seq(Row) /\ Len(rows) \in Nat \ {0} /\ o \in {0, 1} /\ k \in Nat
      /\ rows[k] = "start" <=> k = 1 /\ o = 1
  BY AnswerLines
<1> HIDE DEF o
<1>2. b \in [1..n -> Row] /\ n \in Int /\ n <= Len(rows) /\ \A m \in 1..n : b[m] = rows[m + o]
  BY <1>1 DEF Before, o
<1>3. Before(rows, k + 1) = [m \in 1..n + 1 |-> rows[m + o]]
  <2>1. (k + 1) - 1 - o = n + 1
    BY <1>1
  <2> QED BY <2>1 DEF Before, o
<1>4. b \in Seq(Row)
  <2>1. CASE n >= 0
    BY <1>2, <2>1
  <2>2. CASE n < 0
    <3>1. 1..n = {} /\ 1..0 = {}
      BY <1>2, <2>2
    <3>2. b \in [1..0 -> Row]
      BY <1>2, <3>1
    <3> QED BY <3>2
  <2> QED BY <1>2, <2>1, <2>2
<1>5. ASSUME n <= 0 PROVE b = <<>>
  <2>1. 1..n = {} /\ 1..0 = {}
    BY <1>2, <1>5
  <2>2. b \in [1..0 -> Row]
    BY <1>2, <2>1
  <2> QED BY <2>2
<1>6. ASSUME k = 1 PROVE b = <<>>
  BY <1>1, <1>5, <1>6
<1>7. ASSUME rows[k] = "start" PROVE Before(rows, k + 1) = <<>>
  <2>1. n + 1 = 0 /\ 1..0 = {}
    BY <1>1, <1>7
  <2>2. Before(rows, k + 1) \in [1..0 -> Row]
    BY <1>3, <2>1
  <2> QED BY <2>2
<1>8. ASSUME rows[k] # "start" PROVE Before(rows, k + 1) = Append(b, rows[k])
  <2>1. n >= 0 /\ rows[k] \in Row /\ (n + 1) + o = k
    BY <1>1, <1>8
  <2>2. Len(b) = n
    BY <1>2, <2>1
  <2>3. /\ Append(b, rows[k]) \in Seq(Row) /\ Len(Append(b, rows[k])) = n + 1
        /\ \A m \in 1..n + 1 : Append(b, rows[k])[m] = rows[m + o]
    BY <1>2, <1>4, <2>1, <2>2
  <2>4. DOMAIN Append(b, rows[k]) = 1..n + 1
    BY <2>3
  <2> QED BY <1>3, <2>3, <2>4
<1> QED BY <1>4, <1>6, <1>7, <1>8

(* At the last line what is collected is the answer.                       *)
LEMMA BeforeEnd ==
    ASSUME NEW q \in Query, NEW rows \in Answers(q), NEW k \in 1..Len(rows), rows[k] = "end"
    PROVE  Before(rows, k) \in Whole(q)
<1>1. k = Len(rows)
  BY AnswerLines
<1>2. ASSUME NEW b, NEW n \in {1, 2}, b \in Seq(Row), DOMAIN b = 1..n
      PROVE  b = IF n = 1 THEN <<b[1]>> ELSE <<b[1], b[2]>>
  BY <1>2
<1>3. Before(rows, k) \in Seq(Row)
  BY BeforeLines
<1>4. CASE rows = <<"user", "row", "end">> /\ <<"user", "row">> \in Whole(q)
  <2>1. k = 3 /\ Offset(rows) = 0
    BY <1>1, <1>4 DEF Offset
  <2>2. DOMAIN Before(rows, k) = 1..2 /\ Before(rows, k)[1] = "user" /\ Before(rows, k)[2] = "row"
    BY <1>4, <2>1 DEF Before
  <2> QED BY <1>2, <1>3, <1>4, <2>2
<1>5. CASE rows = <<"row", "end">> /\ <<"row">> \in Whole(q)
  <2>1. k = 2 /\ Offset(rows) = 0
    BY <1>1, <1>5 DEF Offset
  <2>2. DOMAIN Before(rows, k) = 1..1 /\ Before(rows, k)[1] = "row"
    BY <1>5, <2>1 DEF Before
  <2> QED BY <1>2, <1>3, <1>5, <2>2
<1>6. CASE rows = <<"start", "row", "row", "end">> /\ <<"row", "row">> \in Whole(q)
  <2>1. k = 4 /\ Offset(rows) = 1
    BY <1>1, <1>6 DEF Offset
  <2>2. DOMAIN Before(rows, k) = 1..2 /\ Before(rows, k)[1] = "row" /\ Before(rows, k)[2] = "row"
    BY <1>6, <2>1 DEF Before
  <2> QED BY <1>2, <1>3, <1>6, <2>2
<1>7. CASE rows = <<"row", "row", "end">> /\ <<"row", "row">> \in Whole(q)
  <2>1. k = 3 /\ Offset(rows) = 0
    BY <1>1, <1>7 DEF Offset
  <2>2. DOMAIN Before(rows, k) = 1..2 /\ Before(rows, k)[1] = "row" /\ Before(rows, k)[2] = "row"
    BY <1>7, <2>1 DEF Before
  <2> QED BY <1>2, <1>3, <1>7, <2>2
<1>8. CASE rows = <<"gone">>
  BY <1>8
<1> QED BY <1>4, <1>5, <1>6, <1>7, <1>8, AnswersAre

-----------------------------------------------------------------------------
(* Answers on their way.                                                   *)

LEMMA LeadsTail ==
    ASSUME NEW s \in Seq(Reply), NEW i \in 1..Len(s), i > 1, NEW q, NEW rows \in Seq(Row),
           NEW k \in 1..Len(rows), Leads(s, i, q, rows, k)
    PROVE  Leads(Tail(s), i - 1, q, rows, k)
<1> DEFINE t == Tail(s)
<1>1. Len(t) = Len(s) - 1 /\ \A j \in 1..Len(t) : t[j] = s[j + 1]
  OBVIOUS
<1> HIDE DEF t
<1>2. ASSUME NEW j \in 1..Len(s), j > 1 PROVE j - 1 \in 1..Len(t) /\ t[j - 1] = s[j]
  BY <1>1, <1>2
<1>3. ASSUME NEW m \in k..Len(rows)
      PROVE  /\ (i - 1) + m - k \in 1..Len(t)
             /\ t[(i - 1) + m - k] = s[i + m - k]
  <2>1. i + m - k \in 1..Len(s) /\ i + m - k > 1 /\ (i - 1) + m - k = (i + m - k) - 1
    BY DEF Leads
  <2> QED BY <1>2, <2>1
<1>4. ASSUME (i - 1) + Len(rows) - k + 1 \in 1..Len(t) PROVE t[(i - 1) + Len(rows) - k + 1].first
  <2>1. PICK j \in Int : j = i + Len(rows) - k + 1
    OBVIOUS
  <2>2. j \in 1..Len(s) /\ j > 1 /\ (i - 1) + Len(rows) - k + 1 = j - 1
    BY <1>1, <1>4, <2>1
  <2>3. s[j].first
    BY <2>1, <2>2 DEF Leads
  <2>4. t[j - 1] = s[j]
    BY <1>2, <2>2
  <2> QED BY <2>2, <2>3, <2>4
<1> QED BY <1>3, <1>4 DEF Leads, t

LEMMA LeadsOn ==
    ASSUME NEW s \in Seq(Reply), s # <<>>, NEW q, NEW rows \in Seq(Row),
           NEW k \in 1..Len(rows), Leads(s, 1, q, rows, k)
    PROVE  /\ Opens(s, q, rows, k)
           /\ k < Len(rows) =>
                 Leads(Tail(s), 1, q, rows, k + 1) /\ Opens(Tail(s), q, rows, k + 1)
           /\ k = Len(rows) => Starts(Tail(s))
<1> DEFINE t == Tail(s)
<1>1. /\ Len(s) \in Nat \ {0} /\ Len(t) = Len(s) - 1 /\ \A j \in 1..Len(t) : t[j] = s[j + 1]
      /\ t \in Seq(Reply) /\ (Len(t) = 0 => t = <<>>)
  <2>1. Len(s) \in Nat \ {0} /\ t \in Seq(Reply) /\ Len(t) = Len(s) - 1
    OBVIOUS
  <2>2. \A j \in 1..Len(t) : t[j] = s[j + 1]
    OBVIOUS
  <2> HIDE DEF t
  <2>3. Len(t) = 0 => t = <<>>
    BY <2>1
  <2> QED BY <2>1, <2>2, <2>3
<1> HIDE DEF t
<1>2. ASSUME NEW j \in 1..Len(s), j > 1 PROVE j - 1 \in 1..Len(t) /\ t[j - 1] = s[j]
  BY <1>1, <1>2
<1>3. Opens(s, q, rows, k)
  <2>1. k \in k..Len(rows) /\ 1 + k - k = 1
    OBVIOUS
  <2> QED BY <2>1 DEF Leads, Opens
<1>4. ASSUME k < Len(rows) PROVE Leads(t, 1, q, rows, k + 1) /\ Opens(t, q, rows, k + 1)
  <2>1. ASSUME NEW m \in k + 1..Len(rows)
        PROVE  1 + m - (k + 1) \in 1..Len(t) /\ t[1 + m - (k + 1)] = s[1 + m - k]
    <3>1. m \in k..Len(rows) /\ 1 + m - k > 1 /\ 1 + m - (k + 1) = (1 + m - k) - 1
      OBVIOUS
    <3>2. 1 + m - k \in 1..Len(s)
      BY <3>1 DEF Leads
    <3> QED BY <1>2, <3>1, <3>2
  <2>2. ASSUME NEW m \in k + 1..Len(rows)
        PROVE  /\ t[1 + m - (k + 1)].query = q /\ t[1 + m - (k + 1)].row = rows[m]
               /\ t[1 + m - (k + 1)].first <=> m = 1
    <3>1. m \in k..Len(rows)
      OBVIOUS
    <3>2. /\ s[1 + m - k].query = q /\ s[1 + m - k].row = rows[m]
          /\ s[1 + m - k].first <=> m = 1
      BY <3>1 DEF Leads
    <3>3. t[1 + m - (k + 1)] = s[1 + m - k]
      BY <2>1
    <3> QED BY <3>2, <3>3
  <2>3. ASSUME 1 + Len(rows) - (k + 1) + 1 \in 1..Len(t)
        PROVE  t[1 + Len(rows) - (k + 1) + 1].first
    <3>1. /\ 1 + Len(rows) - k + 1 \in 1..Len(s) /\ 1 + Len(rows) - k + 1 > 1
          /\ 1 + Len(rows) - (k + 1) + 1 = (1 + Len(rows) - k + 1) - 1
      BY <1>1, <2>3
    <3> QED BY <1>2, <3>1 DEF Leads
  <2>4. Leads(t, 1, q, rows, k + 1)
    BY <2>1, <2>2, <2>3 DEF Leads
  <2>5. k + 1 \in k + 1..Len(rows) /\ 1 + (k + 1) - (k + 1) = 1 /\ k + 1 # 1
    BY <1>4
  <2>6. 1 \in 1..Len(t) /\ t # <<>>
    BY <1>1, <2>1, <2>5
  <2>7. t[1].query = q /\ t[1].row = rows[k + 1] /\ (t[1].first <=> k + 1 = 1)
    BY <2>2, <2>5
  <2> QED BY <2>4, <2>6, <2>7 DEF Opens
<1>5. ASSUME k = Len(rows), t # <<>> PROVE t[1].first
  <2>1. Len(t) >= 1
    BY <1>1, <1>5
  <2>2. 1 + Len(rows) - k + 1 = 2 /\ 2 \in 1..Len(s) /\ t[1] = s[2]
    BY <1>1, <1>5, <2>1
  <2> QED BY <2>2 DEF Leads
<1> QED BY <1>3, <1>4, <1>5 DEF t, Starts

LEMMA LinesAre ==
    ASSUME NEW q \in Query, NEW rows \in Seq(Row)
    PROVE  /\ Lines(q, rows) \in Seq(Reply) /\ Len(Lines(q, rows)) = Len(rows)
           /\ \A m \in 1..Len(rows) : /\ Lines(q, rows)[m].query = q
                                      /\ Lines(q, rows)[m].row = rows[m]
                                      /\ Lines(q, rows)[m].first <=> m = 1
<1>1. ASSUME NEW m \in 1..Len(rows)
      PROVE  [query |-> q, row |-> rows[m], first |-> m = 1] \in Reply
  <2>1. rows[m] \in Row /\ (m = 1) \in BOOLEAN
    OBVIOUS
  <2> QED BY <2>1 DEF Reply
<1>2. Lines(q, rows) \in [1..Len(rows) -> Reply]
  BY <1>1 DEF Lines
<1>3. Lines(q, rows) \in Seq(Reply) /\ Len(Lines(q, rows)) = Len(rows)
  BY <1>2
<1>4. \A m \in 1..Len(rows) : /\ Lines(q, rows)[m].query = q
                              /\ Lines(q, rows)[m].row = rows[m]
                              /\ Lines(q, rows)[m].first <=> m = 1
  BY DEF Lines
<1> QED BY <1>3, <1>4

LEMMA LeadsMore ==
    ASSUME NEW s \in Seq(Reply), NEW p \in Query, NEW more \in Answers(p),
           NEW u, u = s \o Lines(p, more)
    PROVE  /\ \A i \in 1..Len(s), q \in Query : \A rows \in Answers(q) : \A k \in 1..Len(rows) :
                 Leads(s, i, q, rows, k) => Leads(u, i, q, rows, k)
           /\ \A j \in 1..Len(more) : Leads(u, Len(s) + j, p, more, j)
           /\ u \in Seq(Reply) /\ Len(u) = Len(s) + Len(more)
           /\ u # <<>> /\ (s = <<>> => Starts(u)) /\ (s # <<>> => u[1] = s[1])
<1> DEFINE ls == Lines(p, more)
<1>1. more \in Seq(Row) /\ Len(more) \in Nat \ {0}
  BY AnswerLines
<1>2. /\ ls \in Seq(Reply) /\ Len(ls) = Len(more)
      /\ \A m \in 1..Len(more) : ls[m].query = p /\ ls[m].row = more[m] /\ (ls[m].first <=> m = 1)
  BY <1>1, LinesAre
<1> HIDE DEF ls
<1>3. /\ u \in Seq(Reply) /\ Len(u) = Len(s) + Len(more) /\ Len(s) \in Nat
      /\ \A i \in 1..Len(s) : i \in 1..Len(u) /\ u[i] = s[i]
      /\ \A m \in 1..Len(more) : Len(s) + m \in 1..Len(u) /\ u[Len(s) + m] = ls[m]
  <2>1. u = s \o ls
    BY DEF ls
  <2>a. ls \in Seq(Reply) /\ s \in Seq(Reply)
    BY <1>2
  <2>b. u \in Seq(Reply)
    BY <2>a, <2>1
  <2>c. Len(u) = Len(s) + Len(ls) /\ Len(s) \in Nat
    BY <2>a, <2>1
  <2>2. u \in Seq(Reply) /\ Len(u) = Len(s) + Len(ls) /\ Len(s) \in Nat
    BY <2>b, <2>c
  <2>3. \A i \in 1..Len(s) : i \in 1..Len(u) /\ u[i] = s[i]
    BY <1>2, <2>1, <2>2
  <2>4. ASSUME NEW m \in 1..Len(ls) PROVE Len(s) + m \in 1..Len(u) /\ u[Len(s) + m] = ls[m]
    BY <1>2, <2>1, <2>2
  <2> QED BY <1>2, <2>2, <2>3, <2>4
<1>4. ASSUME NEW i \in 1..Len(s), NEW q \in Query, NEW rows \in Answers(q),
             NEW k \in 1..Len(rows), Leads(s, i, q, rows, k)
      PROVE  Leads(u, i, q, rows, k)
  <2>1. Len(rows) \in Nat
    BY AnswerLines
  <2>2. ASSUME NEW m \in k..Len(rows)
        PROVE  /\ i + m - k \in 1..Len(u)
               /\ u[i + m - k].query = q /\ u[i + m - k].row = rows[m]
               /\ u[i + m - k].first <=> m = 1
    <3>1. i + m - k \in 1..Len(s)
      BY <1>4 DEF Leads
    <3>2. i + m - k \in 1..Len(u) /\ u[i + m - k] = s[i + m - k]
      BY <1>3, <3>1
    <3> QED BY <1>4, <3>1, <3>2 DEF Leads
  <2>3. ASSUME i + Len(rows) - k + 1 \in 1..Len(u) PROVE u[i + Len(rows) - k + 1].first
    <3>1. CASE i + Len(rows) - k + 1 \in 1..Len(s)
      <4>1. u[i + Len(rows) - k + 1] = s[i + Len(rows) - k + 1]
        BY <1>3, <3>1
      <4> QED BY <1>4, <3>1, <4>1 DEF Leads
    <3>2. CASE i + Len(rows) - k + 1 \notin 1..Len(s)
      <4>1. Len(rows) \in k..Len(rows)
        BY <2>1
      <4>2. i + Len(rows) - k \in 1..Len(s)
        BY <1>4, <4>1 DEF Leads
      <4>3. i + Len(rows) - k + 1 = Len(s) + 1 /\ 1 \in 1..Len(more)
        <5>a. i + Len(rows) - k \in Int
          BY <2>1
        <5>1. PICK x \in Int : x = i + Len(rows) - k
          BY <5>a
        <5>2. i + Len(rows) - k + 1 = x + 1 /\ x \in 1..Len(s)
          BY <2>1, <4>2, <5>1
        <5>3. x + 1 \notin 1..Len(s)
          BY <3>2, <5>2
        <5>4. x = Len(s) /\ 1 \in 1..Len(more)
          BY <1>1, <1>3, <5>2, <5>3
        <5> QED BY <5>2, <5>4
      <4>4. u[Len(s) + 1] = ls[1] /\ ls[1].first
        BY <1>2, <1>3, <4>3
      <4> QED BY <4>3, <4>4
    <3> QED BY <3>1, <3>2
  <2> QED BY <2>2, <2>3 DEF Leads
<1>5. ASSUME NEW j \in 1..Len(more) PROVE Leads(u, Len(s) + j, p, more, j)
  <2>1. ASSUME NEW m \in j..Len(more)
        PROVE  /\ (Len(s) + j) + m - j = Len(s) + m /\ m \in 1..Len(more)
    BY <1>1, <1>3
  <2>2. (Len(s) + j) + Len(more) - j + 1 \notin 1..Len(u)
    BY <1>1, <1>3
  <2>3. ASSUME NEW m \in j..Len(more)
        PROVE  /\ (Len(s) + j) + m - j \in 1..Len(u)
               /\ u[(Len(s) + j) + m - j].query = p /\ u[(Len(s) + j) + m - j].row = more[m]
               /\ u[(Len(s) + j) + m - j].first <=> m = 1
    <3>1. (Len(s) + j) + m - j = Len(s) + m /\ m \in 1..Len(more)
      BY <2>1
    <3>2. Len(s) + m \in 1..Len(u) /\ u[Len(s) + m] = ls[m]
      BY <1>3, <3>1
    <3>3. ls[m].query = p /\ ls[m].row = more[m] /\ (ls[m].first <=> m = 1)
      BY <1>2, <3>1
    <3> QED BY <3>1, <3>2, <3>3
  <2> QED BY <2>2, <2>3 DEF Leads
<1>6. 1 \in 1..Len(u) /\ 1 \in 1..Len(more)
  BY <1>1, <1>3
<1>7. ASSUME s = <<>> PROVE Starts(u)
  <2>1. Len(s) = 0
    BY <1>7
  <2>2. u[1] = ls[1]
    BY <1>3, <1>6, <2>1
  <2> QED BY <1>2, <1>6, <2>2 DEF Starts
<1>8. ASSUME s # <<>> PROVE u[1] = s[1]
  BY <1>3, <1>8
<1> QED BY <1>3, <1>4, <1>5, <1>6, <1>7, <1>8

-----------------------------------------------------------------------------
(* A line of an answer is handled.                                         *)

LEMMA Expected ==
    ASSUME QueryInv, replies # <<>>
    PROVE  \E q \in Query : \E rows \in Answers(q) : \E k \in 1..Len(rows) :
              /\ Leads(replies, 1, q, rows, k)
              /\ replies[1].query = q /\ replies[1].row = rows[k]
              /\ q \notin split /\ Tracked(q) => inFlight[q].rows = Before(rows, k)
<1>1. replies \in Seq(Reply) /\ 1 \in 1..Len(replies)
  BY DEF QueryInv, QueryTypeOK, Reply
<1>2. PICK q \in Query : \E rows \in Answers(q) : \E k \in 1..Len(rows) :
         Leads(replies, 1, q, rows, k)
  BY <1>1 DEF QueryInv, RepliesInv
<1>3. ASSUME NEW rows \in Answers(q), NEW k \in 1..Len(rows), Leads(replies, 1, q, rows, k)
      PROVE  Opens(replies, q, rows, k)
  <2>1. rows \in Seq(Row)
    BY AnswerLines
  <2> QED BY <1>1, <1>3, <2>1, LeadsOn
<1>4. CASE q \notin split /\ Tracked(q) /\ Reading(q)
  <2>1. PICK rows \in Answers(q) : \E k \in 1..Len(rows) :
           Leads(replies, 1, q, rows, k) /\ inFlight[q].rows = Before(rows, k)
    BY <1>4 DEF QueryInv, FlightInv
  <2>2. PICK k \in 1..Len(rows) :
           Leads(replies, 1, q, rows, k) /\ inFlight[q].rows = Before(rows, k)
    BY <2>1
  <2>3. replies[1].query = q /\ replies[1].row = rows[k]
    BY <1>3, <2>2 DEF Opens
  <2> QED BY <2>2, <2>3
<1>5. CASE ~(q \notin split /\ Tracked(q) /\ Reading(q))
  <2>a. PICK rows \in Answers(q) : \E k \in 1..Len(rows) : Leads(replies, 1, q, rows, k)
    BY <1>2
  <2>1. PICK k \in 1..Len(rows) : Leads(replies, 1, q, rows, k)
    BY <2>a
  <2>2. /\ replies[1].query = q /\ replies[1].row = rows[k] /\ (replies[1].first <=> k = 1)
    BY <1>3, <2>1 DEF Opens
  <2>3. ASSUME q \notin split, Tracked(q) PROVE inFlight[q].rows = Before(rows, k)
    <3>1. k = 1 /\ inFlight[q].rows = <<>>
      BY <1>5, <2>2, <2>3 DEF QueryInv, FlightInv, Reading
    <3> QED BY <3>1, BeforeLines
  <2> QED BY <2>1, <2>2, <2>3
<1> QED BY <1>4, <1>5

LEMMA Advances ==
    ASSUME QueryInv, replies # <<>>, replies' = Tail(replies), NEW q \in Query,
           NEW rows \in Answers(q), NEW k \in 1..Len(rows), Leads(replies, 1, q, rows, k),
           \A p \in Query \ {q} : inFlight'[p] = inFlight[p] /\ (p \in split' <=> p \in split),
           k < Len(rows) /\ q \notin split' /\ Tracked(q)' =>
              inFlight'[q].rows = Before(rows, k + 1),
           k = Len(rows) /\ q \notin split' /\ Tracked(q)' => inFlight'[q].rows = <<>>
    PROVE  RepliesInv' /\ FlightInv'
<1>1. /\ replies \in Seq(Reply) /\ Len(replies) \in Nat \ {0}
      /\ Len(replies') = Len(replies) - 1
  BY DEF QueryInv, QueryTypeOK, Reply
<1>2. rows \in Seq(Row) /\ Len(rows) \in Nat /\ k \in Nat /\ k <= Len(rows)
  BY AnswerLines
<1>3. /\ Opens(replies, q, rows, k)
      /\ k < Len(rows) => Leads(replies', 1, q, rows, k + 1) /\ Opens(replies', q, rows, k + 1)
      /\ k = Len(rows) => Starts(replies')
  BY <1>1, <1>2, LeadsOn
<1>4. ASSUME NEW i \in 1..Len(replies')
      PROVE  \E p \in Query : \E ls \in Answers(p) : \E m \in 1..Len(ls) :
                Leads(replies', i, p, ls, m)
  <2>1. i + 1 \in 1..Len(replies) /\ i + 1 > 1 /\ (i + 1) - 1 = i
    BY <1>1
  <2>2. PICK p \in Query : \E ls \in Answers(p) : \E m \in 1..Len(ls) :
           Leads(replies, i + 1, p, ls, m)
    BY <2>1 DEF QueryInv, RepliesInv
  <2>a. PICK ls \in Answers(p) : \E m \in 1..Len(ls) : Leads(replies, i + 1, p, ls, m)
    BY <2>2
  <2>3. PICK m \in 1..Len(ls) : Leads(replies, i + 1, p, ls, m)
    BY <2>a
  <2>4. ls \in Seq(Row)
    BY AnswerLines
  <2>5. Leads(replies', i, p, ls, m)
    BY <1>1, <2>1, <2>3, <2>4, LeadsTail
  <2> QED BY <2>5
<1>5. RepliesInv'
  BY <1>4 DEF RepliesInv, Leads
<1>6. ASSUME NEW p \in Query \ {q}, p \notin split', Tracked(p)'
      PROVE  ~Reading(p)' /\ inFlight'[p].rows = <<>>
  <2>1. ~Reading(p)' /\ ~Reading(p)
    BY <1>2, <1>3 DEF Reading, Opens, Starts
  <2>2. p \notin split /\ Tracked(p) /\ inFlight'[p] = inFlight[p]
    BY <1>6 DEF Tracked
  <2> QED BY <2>1, <2>2 DEF QueryInv, FlightInv
<1>7. ASSUME q \notin split', Tracked(q)', k < Len(rows)
      PROVE  /\ Reading(q)' /\ k + 1 \in 1..Len(rows)
             /\ Leads(replies', 1, q, rows, k + 1) /\ inFlight'[q].rows = Before(rows, k + 1)
  BY <1>2, <1>3, <1>7 DEF Reading, Opens
<1>8. ASSUME q \notin split', Tracked(q)', k = Len(rows)
      PROVE  ~Reading(q)' /\ inFlight'[q].rows = <<>>
  BY <1>3, <1>8 DEF Reading, Starts
<1>9. ASSUME NEW p \in Query \ split', Tracked(p)'
      PROVE  IF Reading(p)'
             THEN \E ls \in Answers(p) : \E m \in 1..Len(ls) :
                     Leads(replies', 1, p, ls, m) /\ inFlight'[p].rows = Before(ls, m)
             ELSE inFlight'[p].rows = <<>>
  <2>1. CASE p # q
    BY <1>6, <1>9, <2>1
  <2>2. CASE p = q /\ k < Len(rows)
    <3>1. /\ Reading(q)' /\ k + 1 \in 1..Len(rows)
          /\ Leads(replies', 1, q, rows, k + 1) /\ inFlight'[q].rows = Before(rows, k + 1)
      BY <1>7, <1>9, <2>2
    <3> QED BY <2>2, <3>1
  <2>3. CASE p = q /\ k = Len(rows)
    BY <1>8, <1>9, <2>3
  <2> QED BY <1>2, <2>1, <2>2, <2>3
<1>10. FlightInv'
  BY <1>9 DEF FlightInv, Leads, Before
<1> QED BY <1>5, <1>10

-----------------------------------------------------------------------------
(* Every step of the queries.                                              *)

LEMMA FirstQueries == ASSUME QueryInit PROVE QueryInv
<1>1. QueryTypeOK
  <2>1. <<>> \in Seq(Query) /\ <<>> \in Seq([query : Query, row : Row, first : BOOLEAN])
    OBVIOUS
  <2>2. Nothing \in [marked : BOOLEAN, rows : Seq(Row)]
    <3>1. <<>> \in Seq(Row)
      OBVIOUS
    <3> QED BY <3>1 DEF Nothing
  <2>3. inFlight \in [Query -> [marked : BOOLEAN, rows : Seq(Row)]]
    BY <2>2 DEF QueryInit
  <2> QED BY <2>1, <2>3 DEF QueryInit, QueryTypeOK
<1>2. replies = <<>> /\ Len(replies) = 0 /\ results = {}
  BY DEF QueryInit
<1>3. RepliesInv
  BY <1>2 DEF RepliesInv
<1>4. ASSUME NEW q \in Query PROVE ~Reading(q) /\ inFlight[q].rows = <<>>
  BY <1>2 DEF Reading, QueryInit, Nothing
<1> QED BY <1>1, <1>2, <1>3, <1>4 DEF QueryInv, FlightInv, ResultIsWhole

(* Where nothing is collected and nothing is said.                         *)
LEMMA FlightStays ==
    ASSUME FlightInv, UNCHANGED <<replies, inFlight, split>>
    PROVE  FlightInv'
BY DEF FlightInv, Reading, Tracked

LEMMA RepliesStay == ASSUME RepliesInv, UNCHANGED replies PROVE RepliesInv'
BY DEF RepliesInv

LEMMA QueriesStay ==
    ASSUME QueryInv, questions' \in Seq(Query), UNCHANGED <<replies, inFlight, results, split>>
    PROVE  QueryInv'
<1>1. QueryTypeOK'
  BY DEF QueryInv, QueryTypeOK
<1>2. RepliesInv' /\ FlightInv'
  BY FlightStays, RepliesStay DEF QueryInv
<1>3. ResultIsWhole'
  BY DEF QueryInv, ResultIsWhole
<1> QED BY <1>1, <1>2, <1>3 DEF QueryInv

LEMMA SessionKeepsQueries == ASSUME QueryInv, SessionStep PROVE QueryInv'
<1>1. UNCHANGED <<inFlight, results>> /\ questions \in Seq(Query) /\ <<>> \in Seq(Query)
  BY DEF SessionStep, QueryInv, QueryTypeOK
<1>2. CASE replies' = <<>> /\ questions' = <<>> /\ split' = split \cup Partial
  <2>1. QueryTypeOK'
    <3>1. <<>> \in Seq([query : Query, row : Row, first : BOOLEAN])
      OBVIOUS
    <3> QED BY <1>1, <1>2, <3>1 DEF QueryInv, QueryTypeOK, Partial
  <2>2. Len(replies') = 0
    BY <1>2
  <2>3. RepliesInv'
    BY <2>2 DEF RepliesInv
  <2>4. ASSUME NEW q \in Query \ split' PROVE ~Reading(q)' /\ inFlight'[q].rows = <<>>
    BY <1>1, <1>2, <2>4 DEF Reading, Partial
  <2>5. FlightInv'
    BY <2>4 DEF FlightInv
  <2>6. ResultIsWhole'
    BY <1>1 DEF QueryInv, ResultIsWhole
  <2> QED BY <2>1, <2>3, <2>5, <2>6 DEF QueryInv
<1>3. CASE questions' \in {<<>>, questions} /\ UNCHANGED <<replies, split>>
  BY <1>1, <1>3, QueriesStay
<1> QED BY <1>2, <1>3 DEF SessionStep

LEMMA ServerKeepsQueries == ASSUME QueryInv, ServerAnswers PROVE QueryInv'
<1> DEFINE p == Head(questions)
<1>1. /\ questions \in Seq(Query) /\ questions # <<>> /\ replies \in Seq(Reply)
      /\ UNCHANGED <<inFlight, results, split>>
  BY DEF ServerAnswers, QueryInv, QueryTypeOK, Reply
<1>2. p \in Query /\ questions' \in Seq(Query)
  BY <1>1 DEF ServerAnswers
<1>3. PICK more \in Answers(p) : replies' = replies \o Lines(p, more)
  BY DEF ServerAnswers
<1> HIDE DEF p
<1>4. /\ \A i \in 1..Len(replies), q \in Query : \A rows \in Answers(q) : \A k \in 1..Len(rows) :
            Leads(replies, i, q, rows, k) => Leads(replies', i, q, rows, k)
      /\ \A j \in 1..Len(more) : Leads(replies', Len(replies) + j, p, more, j)
      /\ replies' \in Seq(Reply) /\ Len(replies') = Len(replies) + Len(more)
      /\ replies' # <<>>
      /\ (replies = <<>> => Starts(replies')) /\ (replies # <<>> => replies'[1] = replies[1])
  BY <1>1, <1>2, <1>3, LeadsMore
<1>5. Len(more) \in Nat \ {0} /\ Len(replies) \in Nat
  BY <1>1, <1>2, AnswerLines
<1>6. QueryTypeOK'
  BY <1>1, <1>2, <1>4 DEF QueryInv, QueryTypeOK, Reply
<1>7. ASSUME NEW i \in 1..Len(replies')
      PROVE  \E q \in Query : \E rows \in Answers(q) : \E k \in 1..Len(rows) :
                Leads(replies', i, q, rows, k)
  <2>1. CASE i \in 1..Len(replies)
    <3>1. PICK q \in Query : \E rows \in Answers(q) : \E k \in 1..Len(rows) :
             Leads(replies, i, q, rows, k)
      BY <2>1 DEF QueryInv, RepliesInv
    <3> QED BY <1>4, <2>1, <3>1
  <2>2. CASE i \notin 1..Len(replies)
    <3>1. i - Len(replies) \in 1..Len(more) /\ Len(replies) + (i - Len(replies)) = i
      BY <1>4, <1>5, <2>2
    <3>2. Leads(replies', i, p, more, i - Len(replies))
      BY <1>4, <3>1
    <3> QED BY <1>2, <3>1, <3>2
  <2> QED BY <2>1, <2>2
<1>8. RepliesInv'
  BY <1>7 DEF RepliesInv, Leads
<1>9. ASSUME NEW q \in Query \ split, Tracked(q)
      PROVE  IF Reading(q)'
             THEN \E rows \in Answers(q) : \E k \in 1..Len(rows) :
                     Leads(replies', 1, q, rows, k) /\ inFlight'[q].rows = Before(rows, k)
             ELSE inFlight'[q].rows = <<>>
  <2>1. Reading(q)' <=> Reading(q)
    BY <1>4 DEF Reading, Starts
  <2>2. CASE Reading(q)
    <3>1. PICK rows \in Answers(q) : \E k \in 1..Len(rows) :
             Leads(replies, 1, q, rows, k) /\ inFlight[q].rows = Before(rows, k)
      BY <1>9, <2>2 DEF QueryInv, FlightInv
    <3>2. PICK k \in 1..Len(rows) :
             Leads(replies, 1, q, rows, k) /\ inFlight[q].rows = Before(rows, k)
      BY <3>1
    <3>3. 1 \in 1..Len(replies)
      BY <1>1, <2>2 DEF Reading
    <3>4. Leads(replies', 1, q, rows, k) /\ inFlight'[q].rows = Before(rows, k)
      BY <1>1, <1>4, <3>2, <3>3
    <3> QED BY <2>1, <2>2, <3>4
  <2>3. CASE ~Reading(q)
    BY <1>1, <1>9, <2>1, <2>3 DEF QueryInv, FlightInv
  <2> QED BY <2>2, <2>3
<1>10. \A q \in Query : q \in split' <=> q \in split
  BY <1>1
<1>11. \A q \in Query : Tracked(q)' <=> Tracked(q)
  BY <1>1 DEF Tracked
<1>12. FlightInv'
  BY <1>9, <1>10, <1>11 DEF FlightInv, Leads, Before
<1>13. ResultIsWhole'
  BY <1>1 DEF QueryInv, ResultIsWhole
<1> QED BY <1>6, <1>8, <1>12, <1>13 DEF QueryInv

LEMMA QuestionsKeepQueries ==
    ASSUME QueryInv, NEW p \in Query, registerWebQuery(p) \/ ClientAsks(p)
    PROVE  QueryInv'
<1>1. UNCHANGED <<replies, results>> /\ questions' \in Seq(Query)
  <2>1. /\ UNCHANGED <<replies, results>>
        /\ questions' = IF link = "up" THEN Append(questions, p) ELSE questions
    BY DEF registerWebQuery, ClientAsks, Asks
  <2>2. questions \in Seq(Query)
    BY DEF QueryInv, QueryTypeOK
  <2> QED BY <2>1, <2>2
<1>2. CASE UNCHANGED <<inFlight, split>>
  BY <1>1, <1>2, QueriesStay
<1>3. CASE /\ registerWebQuery(p) /\ Marks(p)
           /\ inFlight' = [inFlight EXCEPT ![p] = [marked |-> TRUE, rows |-> <<>>]]
           /\ split' = IF Amid(p) THEN split \cup {p} ELSE split
  <2>1. QueryTypeOK'
    <3>1. [marked |-> TRUE, rows |-> <<>>] \in [marked : BOOLEAN, rows : Seq(Row)]
      <4>1. <<>> \in Seq(Row)
        OBVIOUS
      <4> QED BY <4>1
    <3>2. inFlight' \in [Query -> [marked : BOOLEAN, rows : Seq(Row)]]
      BY <1>3, <3>1 DEF QueryInv, QueryTypeOK
    <3> QED BY <1>1, <1>3, <3>2 DEF QueryInv, QueryTypeOK
  <2>2. inFlight'[p].rows = <<>> /\ \A q \in Query \ {p} : inFlight'[q] = inFlight[q]
    BY <1>3 DEF QueryInv, QueryTypeOK
  <2>3. ASSUME p \notin split' PROVE ~Reading(p)
    <3>1. ~Amid(p)
      BY <1>3, <2>3
    <3>2. ASSUME Reading(p) PROVE Amid(p)
      <4>1. 1 \in 1..Len(replies) /\ 1..1 - 1 = {}
        BY <3>2 DEF Reading, QueryInv, QueryTypeOK
      <4> QED BY <3>2, <4>1 DEF Reading, Amid
    <3> QED BY <3>1, <3>2
  <2>4. \A q \in Query : Reading(q)' <=> Reading(q)
    BY <1>1 DEF Reading
  <2>5. ASSUME NEW q \in Query \ split', Tracked(q)'
        PROVE  IF Reading(q)
               THEN \E rows \in Answers(q) : \E k \in 1..Len(rows) :
                       Leads(replies, 1, q, rows, k) /\ inFlight'[q].rows = Before(rows, k)
               ELSE inFlight'[q].rows = <<>>
    <3>1. CASE q = p
      BY <2>2, <2>3, <2>5, <3>1
    <3>2. CASE q # p
      <4>1. q \notin split /\ inFlight'[q] = inFlight[q] /\ Tracked(q)
        BY <1>3, <2>2, <2>5, <3>2 DEF Tracked
      <4> QED BY <4>1 DEF QueryInv, FlightInv
    <3> QED BY <3>1, <3>2
  <2>6. FlightInv'
    BY <1>1, <2>4, <2>5 DEF FlightInv
  <2>7. RepliesInv' /\ ResultIsWhole'
    BY <1>1, RepliesStay DEF QueryInv, ResultIsWhole
  <2> QED BY <2>1, <2>6, <2>7 DEF QueryInv
<1> QED BY <1>2, <1>3 DEF registerWebQuery, ClientAsks

(* What a line does to what is collected.                                  *)
LEMMA CollectsOne ==
    ASSUME QueryInv, replies # <<>>, replies' = Tail(replies), UNCHANGED questions,
           NEW q \in Query, NEW rows \in Answers(q), NEW k \in 1..Len(rows), k < Len(rows),
           Leads(replies, 1, q, rows, k), NEW more \in Seq(Row),
           inFlight' = [inFlight EXCEPT ![q].rows = more], UNCHANGED results,
           split' = split \/ split' = split \ {q},
           q \notin split' /\ Tracked(q) => more = Before(rows, k + 1)
    PROVE  QueryInv'
<1>1. QueryTypeOK /\ RepliesInv /\ FlightInv /\ ResultIsWhole
  BY DEF QueryInv
<1>2. inFlight' \in [Query -> [marked : BOOLEAN, rows : Seq(Row)]]
  BY <1>1 DEF QueryTypeOK
<1>3. /\ inFlight'[q].rows = more /\ inFlight'[q].marked = inFlight[q].marked
      /\ \A p \in Query \ {q} : inFlight'[p] = inFlight[p]
  BY <1>1 DEF QueryTypeOK
<1>4. replies' \in Seq([query : Query, row : Row, first : BOOLEAN])
  BY <1>1 DEF QueryTypeOK
<1>5. QueryTypeOK'
  BY <1>1, <1>2, <1>4 DEF QueryTypeOK
<1>6. Tracked(q)' <=> Tracked(q)
  BY <1>3 DEF Tracked
<1>7. Len(rows) \in Nat
  BY AnswerLines
<1>8. RepliesInv' /\ FlightInv'
  BY <1>3, <1>6, <1>7, Advances
<1>9. ResultIsWhole'
  BY <1>1 DEF ResultIsWhole
<1> QED BY <1>5, <1>8, <1>9 DEF QueryInv

LEMMA IgnoresOne ==
    ASSUME QueryInv, replies # <<>>, replies' = Tail(replies), UNCHANGED questions,
           NEW q \in Query, NEW rows \in Answers(q), NEW k \in 1..Len(rows),
           Leads(replies, 1, q, rows, k), UNCHANGED <<inFlight, results, split>>, ~Tracked(q)
    PROVE  QueryInv'
<1>1. QueryTypeOK /\ ResultIsWhole
  BY DEF QueryInv
<1>2. replies' \in Seq([query : Query, row : Row, first : BOOLEAN])
  BY <1>1 DEF QueryTypeOK
<1>3. QueryTypeOK'
  BY <1>1, <1>2 DEF QueryTypeOK
<1>4. ~Tracked(q)'
  BY DEF Tracked
<1>5. RepliesInv' /\ FlightInv'
  BY <1>4, Advances
<1>6. ResultIsWhole'
  BY <1>1 DEF ResultIsWhole
<1> QED BY <1>3, <1>5, <1>6 DEF QueryInv

LEMMA PublishesOne ==
    ASSUME QueryInv, replies # <<>>, replies' = Tail(replies), UNCHANGED questions,
           NEW q \in Query, NEW rows \in Answers(q), NEW k \in 1..Len(rows),
           Leads(replies, 1, q, rows, k), rows[k] \in {"end", "gone"},
           NEW shown \in Seq(Row), Publishes(q, shown), q \notin split => shown \in Whole(q)
    PROVE  QueryInv'
<1>1. QueryTypeOK /\ ResultIsWhole
  BY DEF QueryInv
<1>2. /\ results' = results \cup {[query |-> q, rows |-> shown, split |-> q \in split]}
      /\ inFlight' = [inFlight EXCEPT ![q] = Nothing] /\ split' = split \ {q}
  BY DEF Publishes
<1>3. Nothing \in [marked : BOOLEAN, rows : Seq(Row)] /\ Nothing.rows = <<>>
  <2>1. <<>> \in Seq(Row)
    OBVIOUS
  <2> QED BY <2>1 DEF Nothing
<1>4. /\ inFlight' \in [Query -> [marked : BOOLEAN, rows : Seq(Row)]]
      /\ inFlight'[q].rows = <<>> /\ \A p \in Query \ {q} : inFlight'[p] = inFlight[p]
  BY <1>1, <1>2, <1>3 DEF QueryTypeOK
<1>5. [query |-> q, rows |-> shown, split |-> q \in split]
         \in [query : Query, rows : Seq(Row), split : BOOLEAN]
  <2>1. (q \in split) \in BOOLEAN
    OBVIOUS
  <2> QED BY <2>1
<1>6. replies' \in Seq([query : Query, row : Row, first : BOOLEAN])
  BY <1>1 DEF QueryTypeOK
<1>7. QueryTypeOK'
  BY <1>1, <1>2, <1>4, <1>5, <1>6 DEF QueryTypeOK
<1>8. k = Len(rows) /\ Len(rows) \in Nat
  BY AnswerLines
<1>9. RepliesInv' /\ FlightInv'
  BY <1>2, <1>4, <1>8, Advances
<1>10. ASSUME NEW r \in results', ~r.split PROVE r.rows \in Whole(r.query)
  <2>1. CASE r \in results
    BY <1>1, <1>10, <2>1 DEF ResultIsWhole
  <2>2. CASE r = [query |-> q, rows |-> shown, split |-> q \in split]
    <3>1. r.query = q /\ r.rows = shown /\ r.split = (q \in split)
      BY <2>2
    <3> QED BY <1>10, <3>1
  <2> QED BY <1>2, <2>1, <2>2
<1> QED BY <1>7, <1>9, <1>10 DEF QueryInv, ResultIsWhole

(* The line that is next is line k of an answer to q.                      *)
Due(kind, lines, q, rows, k) ==
    /\ Leads(replies, 1, q, rows, k)
    /\ Head(replies).query = q /\ Head(replies).row = rows[k]
    /\ q[1] = kind /\ rows[k] \in lines /\ rows[k] \in Row
    /\ q \notin split /\ Tracked(q) => inFlight[q].rows = Before(rows, k)
    /\ rows[k] = "end" => Before(rows, k) \in Whole(q)
    /\ rows[k] \in {"end", "gone"} <=> k = Len(rows)
    /\ k <= Len(rows)

LEMMA NextLine ==
    ASSUME QueryInv, NEW kind, NEW lines, Line(kind, lines)
    PROVE  \E q \in Query : \E rows \in Answers(q) : \E k \in 1..Len(rows) :
              Due(kind, lines, q, rows, k)
<1>1. /\ replies # <<>> /\ Head(replies).query[1] = kind /\ Head(replies).row \in lines
      /\ Head(replies) = replies[1]
  BY DEF Line, QueryInv, QueryTypeOK
<1>2. PICK q \in Query : \E rows \in Answers(q) : \E k \in 1..Len(rows) :
         /\ Leads(replies, 1, q, rows, k)
         /\ replies[1].query = q /\ replies[1].row = rows[k]
         /\ q \notin split /\ Tracked(q) => inFlight[q].rows = Before(rows, k)
  BY <1>1, Expected
<1>3. PICK rows \in Answers(q) : \E k \in 1..Len(rows) :
         /\ Leads(replies, 1, q, rows, k)
         /\ replies[1].query = q /\ replies[1].row = rows[k]
         /\ q \notin split /\ Tracked(q) => inFlight[q].rows = Before(rows, k)
  BY <1>2
<1>4. PICK k \in 1..Len(rows) :
         /\ Leads(replies, 1, q, rows, k)
         /\ replies[1].query = q /\ replies[1].row = rows[k]
         /\ q \notin split /\ Tracked(q) => inFlight[q].rows = Before(rows, k)
  BY <1>3
<1>5. /\ rows \in Seq(Row) /\ Len(rows) \in Nat /\ (rows[k] \in {"end", "gone"} <=> k = Len(rows))
  BY AnswerLines
<1>6. rows[k] = "end" => Before(rows, k) \in Whole(q)
  BY BeforeEnd
<1>7. rows[k] \in Row /\ k <= Len(rows)
  BY <1>5
<1> QED BY <1>1, <1>4, <1>5, <1>6, <1>7 DEF Due

LEMMA LineFacts ==
    ASSUME QueryInv, NEW kind, NEW lines, Line(kind, lines)
    PROVE  /\ replies # <<>> /\ replies' = Tail(replies) /\ questions' = questions
           /\ \A q \in Query : inFlight[q].rows \in Seq(Row)
BY DEF Line, QueryInv, QueryTypeOK

LEMMA WhoisKeepsQueries == ASSUME QueryInv, handleWhoisNumeric PROVE QueryInv'
<1>1. Line("whois", {"user", "row", "end"})
  BY DEF handleWhoisNumeric
<1>2. PICK q \in Query : \E rows \in Answers(q) : \E k \in 1..Len(rows) :
         Due("whois", {"user", "row", "end"}, q, rows, k)
  BY <1>1, NextLine
<1>3. PICK rows \in Answers(q) : \E k \in 1..Len(rows) :
         Due("whois", {"user", "row", "end"}, q, rows, k)
  BY <1>2
<1>a. PICK k \in 1..Len(rows) : Due("whois", {"user", "row", "end"}, q, rows, k)
  BY <1>3
<1>4. /\ Leads(replies, 1, q, rows, k)
      /\ Head(replies).query = q /\ Head(replies).row = rows[k]
      /\ q[1] = "whois" /\ rows[k] \in {"user", "row", "end"} /\ rows[k] \in Row
      /\ q \notin split /\ Tracked(q) => inFlight[q].rows = Before(rows, k)
      /\ rows[k] = "end" => Before(rows, k) \in Whole(q)
      /\ rows[k] \in {"end", "gone"} <=> k = Len(rows)
      /\ k <= Len(rows)
  BY <1>a DEF Due
<1>5. /\ replies # <<>> /\ replies' = Tail(replies) /\ questions' = questions
      /\ inFlight[q].rows \in Seq(Row)
  BY <1>1, LineFacts
<1>6. Len(rows) \in Nat /\ k \in Nat
  BY AnswerLines
<1>7. CASE ~inFlight[q].marked /\ Ignores
  <2>1. ~Tracked(q) /\ UNCHANGED <<inFlight, results, split>>
    BY <1>4, <1>7 DEF Tracked, Ignores
  <2> QED BY <1>4, <1>5, <2>1, IgnoresOne
<1>8. CASE rows[k] # "end" /\ Collects(q, applyWhoisNumeric(inFlight[q].rows, rows[k]))
  <2> DEFINE more == applyWhoisNumeric(inFlight[q].rows, rows[k])
  <2>1. k < Len(rows)
    BY <1>4, <1>6, <1>8
  <2>2. more \in Seq(Row)
    BY <1>4, <1>5 DEF applyWhoisNumeric
  <2>3. ASSUME q \notin split, Tracked(q) PROVE more = Before(rows, k + 1)
    <3>1. inFlight[q].rows = Before(rows, k)
      BY <1>4, <2>3
    <3>2. rows[k] = "user" => inFlight[q].rows = <<>>
      <4>1. rows[k] = "user" => k = 1
        BY AnswerLines
      <4> QED BY <3>1, <4>1, BeforeLines
    <3>3. rows[k] # "start" => Before(rows, k + 1) = Append(Before(rows, k), rows[k])
      BY BeforeLines
    <3>4. more = Append(inFlight[q].rows, rows[k])
      <4>1. inFlight[q].rows = <<>> => 1..Len(inFlight[q].rows) = {}
        OBVIOUS
      <4> QED BY <3>2, <4>1 DEF applyWhoisNumeric
    <3> QED BY <1>4, <3>1, <3>3, <3>4
  <2>4. /\ inFlight' = [inFlight EXCEPT ![q].rows = more] /\ UNCHANGED results /\ split' = split
    BY <1>8 DEF Collects
  <2> HIDE DEF more
  <2>5. q \notin split' /\ Tracked(q) => more = Before(rows, k + 1)
    BY <2>3, <2>4
  <2> QED BY <1>4, <1>5, <2>1, <2>2, <2>4, <2>5, CollectsOne
<1>9. CASE inFlight[q].marked /\ rows[k] = "end" /\ Publishes(q, inFlight[q].rows)
  <2>1. q \notin split => inFlight[q].rows \in Whole(q)
    BY <1>4, <1>9 DEF Tracked
  <2> QED BY <1>4, <1>5, <1>9, <2>1, PublishesOne
<1> QED BY <1>4, <1>7, <1>8, <1>9 DEF handleWhoisNumeric

LEMMA NoSuchNickKeepsQueries == ASSUME QueryInv, handleWhoisNoSuchNick PROVE QueryInv'
<1>1. Line("whois", {"gone"})
  BY DEF handleWhoisNoSuchNick
<1>2. PICK q \in Query : \E rows \in Answers(q) : \E k \in 1..Len(rows) :
         Due("whois", {"gone"}, q, rows, k)
  BY <1>1, NextLine
<1>3. PICK rows \in Answers(q) : \E k \in 1..Len(rows) :
         Due("whois", {"gone"}, q, rows, k)
  BY <1>2
<1>a. PICK k \in 1..Len(rows) : Due("whois", {"gone"}, q, rows, k)
  BY <1>3
<1>4. /\ Leads(replies, 1, q, rows, k)
      /\ Head(replies).query = q /\ q[1] = "whois" /\ rows[k] = "gone"
  BY <1>a DEF Due
<1>5. /\ replies # <<>> /\ replies' = Tail(replies) /\ questions' = questions
  BY <1>1, LineFacts
<1>6. CASE inFlight[q].marked /\ Publishes(q, <<"gone">>)
  <2>1. <<"gone">> \in Whole(q) /\ <<"gone">> \in Seq(Row)
    BY <1>4, AnswersAre DEF Row
  <2> QED BY <1>4, <1>5, <1>6, <2>1, PublishesOne
<1>7. CASE ~inFlight[q].marked /\ Ignores
  <2>1. ~Tracked(q) /\ UNCHANGED <<inFlight, results, split>>
    BY <1>4, <1>7 DEF Tracked, Ignores
  <2> QED BY <1>4, <1>5, <2>1, IgnoresOne
<1> QED BY <1>4, <1>6, <1>7 DEF handleWhoisNoSuchNick

LEMMA WhoKeepsQueries == ASSUME QueryInv, handleWhoNumeric PROVE QueryInv'
<1>1. Line("who", {"row", "end"})
  BY DEF handleWhoNumeric
<1>2. PICK q \in Query : \E rows \in Answers(q) : \E k \in 1..Len(rows) :
         Due("who", {"row", "end"}, q, rows, k)
  BY <1>1, NextLine
<1>3. PICK rows \in Answers(q) : \E k \in 1..Len(rows) :
         Due("who", {"row", "end"}, q, rows, k)
  BY <1>2
<1>a. PICK k \in 1..Len(rows) : Due("who", {"row", "end"}, q, rows, k)
  BY <1>3
<1>4. /\ Leads(replies, 1, q, rows, k)
      /\ Head(replies).query = q /\ Head(replies).row = rows[k]
      /\ q[1] = "who" /\ rows[k] \in {"row", "end"} /\ rows[k] \in Row
      /\ q \notin split /\ Tracked(q) => inFlight[q].rows = Before(rows, k)
      /\ rows[k] = "end" => Before(rows, k) \in Whole(q)
      /\ rows[k] \in {"end", "gone"} <=> k = Len(rows)
      /\ k <= Len(rows)
  BY <1>a DEF Due
<1>5. /\ replies # <<>> /\ replies' = Tail(replies) /\ questions' = questions
      /\ inFlight[q].rows \in Seq(Row)
  BY <1>1, LineFacts
<1>6. Len(rows) \in Nat /\ k \in Nat
  BY AnswerLines
<1>7. CASE ~inFlight[q].marked /\ Ignores
  <2>1. ~Tracked(q) /\ UNCHANGED <<inFlight, results, split>>
    BY <1>4, <1>7 DEF Tracked, Ignores
  <2> QED BY <1>4, <1>5, <2>1, IgnoresOne
<1>8. CASE rows[k] # "end" /\ Collects(q, Append(inFlight[q].rows, rows[k]))
  <2>1. k < Len(rows) /\ Append(inFlight[q].rows, rows[k]) \in Seq(Row)
    BY <1>4, <1>5, <1>6, <1>8
  <2>2. ASSUME q \notin split, Tracked(q)
        PROVE  Append(inFlight[q].rows, rows[k]) = Before(rows, k + 1)
    <3>1. rows[k] # "start" => Before(rows, k + 1) = Append(Before(rows, k), rows[k])
      BY BeforeLines
    <3> QED BY <1>4, <2>2, <3>1
  <2>3. /\ inFlight' = [inFlight EXCEPT ![q].rows = Append(inFlight[q].rows, rows[k])]
        /\ UNCHANGED results /\ split' = split
    BY <1>8 DEF Collects
  <2>4. q \notin split' /\ Tracked(q) => Append(inFlight[q].rows, rows[k]) = Before(rows, k + 1)
    BY <2>2, <2>3
  <2> QED BY <1>4, <1>5, <2>1, <2>3, <2>4, CollectsOne
<1>9. CASE inFlight[q].marked /\ rows[k] = "end" /\ Publishes(q, inFlight[q].rows)
  <2>1. q \notin split => inFlight[q].rows \in Whole(q)
    BY <1>4, <1>9 DEF Tracked
  <2> QED BY <1>4, <1>5, <1>9, <2>1, PublishesOne
<1> QED BY <1>4, <1>7, <1>8, <1>9 DEF handleWhoNumeric

LEMMA ListKeepsQueries == ASSUME QueryInv, handleListNumeric PROVE QueryInv'
<1>1. Line("list", {"start", "row", "end"})
  BY DEF handleListNumeric
<1>2. PICK q \in Query : \E rows \in Answers(q) : \E k \in 1..Len(rows) :
         Due("list", {"start", "row", "end"}, q, rows, k)
  BY <1>1, NextLine
<1>3. PICK rows \in Answers(q) : \E k \in 1..Len(rows) :
         Due("list", {"start", "row", "end"}, q, rows, k)
  BY <1>2
<1>a. PICK k \in 1..Len(rows) : Due("list", {"start", "row", "end"}, q, rows, k)
  BY <1>3
<1>4. /\ Leads(replies, 1, q, rows, k)
      /\ Head(replies).query = q /\ Head(replies).row = rows[k]
      /\ q[1] = "list" /\ rows[k] \in {"start", "row", "end"} /\ rows[k] \in Row
      /\ q \notin split /\ Tracked(q) => inFlight[q].rows = Before(rows, k)
      /\ rows[k] = "end" => Before(rows, k) \in Whole(q)
      /\ rows[k] \in {"end", "gone"} <=> k = Len(rows)
      /\ k <= Len(rows)
  BY <1>a DEF Due
<1>5. /\ replies # <<>> /\ replies' = Tail(replies) /\ questions' = questions
      /\ inFlight[q].rows \in Seq(Row)
  BY <1>1, LineFacts
<1>6. Len(rows) \in Nat /\ k \in Nat
  BY AnswerLines
<1>7. CASE /\ rows[k] = "start" /\ inFlight' = [inFlight EXCEPT ![q].rows = <<>>]
           /\ split' = split \ {q} /\ UNCHANGED results
  <2>1. k < Len(rows) /\ <<>> \in Seq(Row) /\ Before(rows, k + 1) = <<>>
    <3>1. rows[k] = "start" => Before(rows, k + 1) = <<>>
      BY BeforeLines
    <3> QED BY <1>4, <1>6, <1>7, <3>1
  <2> QED BY <1>4, <1>5, <1>7, <2>1, CollectsOne
<1>8. CASE rows[k] = "row" /\ Collects(q, Append(inFlight[q].rows, rows[k]))
  <2>1. k < Len(rows) /\ Append(inFlight[q].rows, rows[k]) \in Seq(Row)
    BY <1>4, <1>5, <1>6, <1>8
  <2>2. ASSUME q \notin split, Tracked(q)
        PROVE  Append(inFlight[q].rows, rows[k]) = Before(rows, k + 1)
    <3>1. rows[k] # "start" => Before(rows, k + 1) = Append(Before(rows, k), rows[k])
      BY BeforeLines
    <3> QED BY <1>4, <1>8, <2>2, <3>1
  <2>3. /\ inFlight' = [inFlight EXCEPT ![q].rows = Append(inFlight[q].rows, rows[k])]
        /\ UNCHANGED results /\ split' = split
    BY <1>8 DEF Collects
  <2>4. q \notin split' /\ Tracked(q) => Append(inFlight[q].rows, rows[k]) = Before(rows, k + 1)
    BY <2>2, <2>3
  <2> QED BY <1>4, <1>5, <2>1, <2>3, <2>4, CollectsOne
<1>9. CASE rows[k] = "end" /\ Publishes(q, inFlight[q].rows)
  <2>1. q \notin split => inFlight[q].rows \in Whole(q)
    BY <1>4, <1>9 DEF Tracked
  <2> QED BY <1>4, <1>5, <1>9, <2>1, PublishesOne
<1> QED BY <1>4, <1>7, <1>8, <1>9 DEF handleListNumeric

LEMMA QueryInvKept == ASSUME QueryInv, [QueryNext]_<<vars, queryVars>> PROVE QueryInv'
<1>1. CASE UNCHANGED <<vars, queryVars>>
  <2>1. UNCHANGED <<questions, replies, inFlight, results, split>>
    BY <1>1 DEF queryVars
  <2>2. questions' \in Seq(Query)
    BY <2>1 DEF QueryInv, QueryTypeOK
  <2> QED BY <2>1, <2>2, QueriesStay
<1> QED BY <1>1, SessionKeepsQueries, ServerKeepsQueries, QuestionsKeepQueries, WhoisKeepsQueries,
        NoSuchNickKeepsQueries, WhoKeepsQueries, ListKeepsQueries DEF QueryNext

(* A result that a browser is shown is one answer of the server's, whole,
   however many ask at once and wherever the link breaks (handleWhoisNumeric,
   handleWhoNumeric, handleListNumeric).                                   *)
THEOREM ResultIsWholeHolds == QuerySpec => []ResultIsWhole
<1>1. QueryInit => QueryInv
  BY FirstQueries
<1>2. QueryInv /\ [QueryNext]_<<vars, queryVars>> => QueryInv'
  BY QueryInvKept
<1>3. QueryInv => ResultIsWhole
  BY DEF QueryInv
<1> QED BY <1>1, <1>2, <1>3, PTL DEF QuerySpec

=============================================================================

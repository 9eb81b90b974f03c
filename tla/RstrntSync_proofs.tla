------------------------- MODULE RstrntSync_proofs -------------------------
(***************************************************************************)
(* The safety of RstrntSync for any number of sets, scripts and states: no *)
(* script returns early, none waits for a state its server has, and none   *)
(* is forgotten.                                                           *)
(***************************************************************************)
EXTENDS RstrntSync, SequenceTheorems, FiniteSetTheorems, TLAPS

USE DEF vars, socketVars, serverVars, blockVars

(* What is assumed of the constants, one fact at a time.                   *)
LEMMA SetsOneState == ASSUME NEW s \in Setters PROVE sets[s] \in States
BY SyncAssumption

LEMMA Words ==
  "" \notin States /\ "PING" \notin States /\ "EOF" \notin States
BY SyncAssumption

LEMMA Wanted ==
  ASSUME NEW b \in Blockers
  PROVE  /\ wanted[b] \in Seq(States) /\ Len(wanted[b]) \in Nat \ {0}
         /\ DOMAIN wanted[b] = 1 .. Len(wanted[b])
<1>1. wanted[b] \in Seq(States) /\ wanted[b] # <<>>
  BY SyncAssumption
<1> QED  BY <1>1, EmptySeq, LenProperties

-----------------------------------------------------------------------------
(* What a client may have to read, and whether something is in it.         *)
Text == States \cup {"PING", "EOF"}
Occurs(m, q) == \E i \in 1 .. Len(q) : q[i] = m

-----------------------------------------------------------------------------
(* Sequences, and what Sent does to what a client has to read.             *)
LEMMA MapIsSeq ==
  ASSUME NEW S, NEW n \in Nat, NEW f \in [1 .. n -> S]
  PROVE  f \in Seq(S) /\ Len(f) = n
<1>1. f \in Seq(S)
  BY SeqDef
<1>2. f \in [1 .. Len(f) -> S] /\ Len(f) \in Nat
  BY <1>1, LenProperties
<1> QED  BY <1>1, <1>2

LEMMA ConcatOccurs ==
  ASSUME NEW S, NEW p \in Seq(S), NEW q \in Seq(S), NEW m
  PROVE  Occurs(m, p \o q) <=> Occurs(m, p) \/ Occurs(m, q)
<1>1. /\ p \o q \in Seq(S) /\ Len(p \o q) = Len(p) + Len(q)
      /\ \A i \in 1 .. Len(p) + Len(q) :
             (p \o q)[i] = IF i <= Len(p) THEN p[i] ELSE q[i - Len(p)]
  BY ConcatProperties
<1>2. Len(p) \in Nat /\ Len(q) \in Nat
  BY LenProperties
<1>3. ASSUME NEW i \in 1 .. Len(p \o q), (p \o q)[i] = m
      PROVE  Occurs(m, p) \/ Occurs(m, q)
  <2>1. CASE i <= Len(p)
    BY <1>1, <1>2, <1>3, <2>1 DEF Occurs
  <2>2. CASE ~(i <= Len(p))
    <3>1. i - Len(p) \in 1 .. Len(q) /\ q[i - Len(p)] = m
      BY <1>1, <1>2, <1>3, <2>2
    <3> QED  BY <3>1 DEF Occurs
  <2> QED  BY <2>1, <2>2
<1>4. ASSUME NEW i \in 1 .. Len(p), p[i] = m PROVE Occurs(m, p \o q)
  <2>1. i \in 1 .. Len(p \o q) /\ (p \o q)[i] = m
    BY <1>1, <1>2, <1>4
  <2> QED  BY <2>1 DEF Occurs
<1>5. ASSUME NEW i \in 1 .. Len(q), q[i] = m PROVE Occurs(m, p \o q)
  <2>1. i + Len(p) \in 1 .. Len(p \o q) /\ (p \o q)[i + Len(p)] = m
    BY <1>1, <1>2, <1>5
  <2> QED  BY <2>1 DEF Occurs
<1> QED  BY <1>3, <1>4, <1>5 DEF Occurs

LEMMA SentProperties ==
  ASSUME NEW S, NEW box \in [Blockers -> Seq(S)], NEW conns,
         NEW msgs \in Seq(S)
  PROVE  /\ Sent(box, conns, msgs) \in [Blockers -> Seq(S)]
         /\ \A b \in Blockers : \A m :
               /\ Occurs(m, Sent(box, conns, msgs)[b])
                     => Occurs(m, box[b]) \/ Occurs(m, msgs)
               /\ Occurs(m, box[b]) => Occurs(m, Sent(box, conns, msgs)[b])
               /\ /\ Occurs(m, msgs) /\ msgs # <<"PING">>
                  /\ \E c \in conns : c.from = b /\ c.peer = "open"
                  => Occurs(m, Sent(box, conns, msgs)[b])
<1>1. ASSUME NEW b \in Blockers
      PROVE  /\ box[b] \o msgs \in Seq(S) /\ box[b] \in Seq(S)
             /\ \A m : Occurs(m, box[b] \o msgs)
                          <=> Occurs(m, box[b]) \/ Occurs(m, msgs)
  BY ConcatProperties, ConcatOccurs
<1>2. Sent(box, conns, msgs) \in [Blockers -> Seq(S)]
  BY <1>1 DEF Sent
<1>3. ASSUME NEW b \in Blockers
      PROVE  Sent(box, conns, msgs)[b] =
                 IF /\ \E c \in conns : c.from = b /\ c.peer = "open"
                    /\ msgs = <<"PING">> => box[b] = <<>>
                 THEN box[b] \o msgs ELSE box[b]
  BY DEF Sent
<1> QED  BY <1>1, <1>2, <1>3

LEMMA OneMessage ==
  ASSUME NEW w \in {"PING", "EOF"}
  PROVE  /\ <<w>> \in Seq(Text) /\ \A m : Occurs(m, <<w>>) <=> m = w
<1>1. Len(<<w>>) = 1 /\ <<w>>[1] = w
  OBVIOUS
<1>2. <<w>> \in Seq(Text)
  BY DEF Text
<1> QED  BY <1>1, <1>2 DEF Occurs

LEMMA TwoMessages ==
  ASSUME NEW e \in States
  PROVE  /\ <<e, "EOF">> \in Seq(Text) /\ <<e, "EOF">> # <<"PING">>
         /\ \A m : Occurs(m, <<e, "EOF">>) <=> m = e \/ m = "EOF"
<1>1. /\ Len(<<e, "EOF">>) = 2 /\ <<e, "EOF">>[1] = e
      /\ <<e, "EOF">>[2] = "EOF" /\ Len(<<"PING">>) = 1
  OBVIOUS
<1>2. <<e, "EOF">> \in Seq(Text)
  BY DEF Text
<1> QED  BY <1>1, <1>2 DEF Occurs

LEMMA NotPing == <<"EOF">> # <<"PING">>
<1>1. <<"EOF">>[1] = "EOF" /\ <<"PING">>[1] = "PING"
  OBVIOUS
<1> QED  BY <1>1

(* A PING neither hides nor adds a state or the end of a connection.       *)
LEMMA Pinged ==
  ASSUME NEW box \in [Blockers -> Seq(Text)], NEW conns
  PROVE  /\ Sent(box, conns, <<"PING">>) \in [Blockers -> Seq(Text)]
         /\ \A b \in Blockers : \A m : m # "PING" =>
               (Occurs(m, Sent(box, conns, <<"PING">>)[b])
                   <=> Occurs(m, box[b]))
<1>1. <<"PING">> \in Seq(Text) /\ \A m : Occurs(m, <<"PING">>) <=> m = "PING"
  BY OneMessage
<1> QED  BY <1>1, SentProperties

(* The end of a connection reaches all that are open.                      *)
LEMMA EndSent ==
  ASSUME NEW box \in [Blockers -> Seq(Text)], NEW conns
  PROVE  /\ Sent(box, conns, <<"EOF">>) \in [Blockers -> Seq(Text)]
         /\ \A b \in Blockers : \A m :
               /\ m # "EOF" => (Occurs(m, Sent(box, conns, <<"EOF">>)[b])
                                   => Occurs(m, box[b]))
               /\ Occurs(m, box[b])
                     => Occurs(m, Sent(box, conns, <<"EOF">>)[b])
         /\ \A b \in Blockers :
               (\E c \in conns : c.from = b /\ c.peer = "open")
                   => Occurs("EOF", Sent(box, conns, <<"EOF">>)[b])
<1>1. <<"EOF">> \in Seq(Text) /\ \A m : Occurs(m, <<"EOF">>) <=> m = "EOF"
  BY OneMessage
<1> QED  BY <1>1, NotPing, SentProperties

(* So does an answer, and nothing else than the answer and the end.        *)
LEMMA AnswerSent ==
  ASSUME NEW box \in [Blockers -> Seq(Text)], NEW conns, NEW e \in States
  PROVE  /\ Sent(box, conns, <<e, "EOF">>) \in [Blockers -> Seq(Text)]
         /\ \A b \in Blockers : \A m :
               /\ m \notin {e, "EOF"} =>
                     (Occurs(m, Sent(box, conns, <<e, "EOF">>)[b])
                         => Occurs(m, box[b]))
               /\ Occurs(m, box[b])
                     => Occurs(m, Sent(box, conns, <<e, "EOF">>)[b])
         /\ \A b \in Blockers :
               (\E c \in conns : c.from = b /\ c.peer = "open")
                   => Occurs("EOF", Sent(box, conns, <<e, "EOF">>)[b])
<1>1. /\ <<e, "EOF">> \in Seq(Text) /\ <<e, "EOF">> # <<"PING">>
      /\ \A m : Occurs(m, <<e, "EOF">>) <=> m = e \/ m = "EOF"
  BY TwoMessages
<1> QED  BY <1>1, SentProperties

-----------------------------------------------------------------------------
(* Connections: what closing one and sweeping them changes.                *)
LEMMA ClosedConnection ==
  ASSUME NEW b, NEW c \in Connection
  PROVE  /\ Closed(b, c) \in Connection
         /\ Closed(b, c).from = c.from /\ Closed(b, c).event = c.event
         /\ Closed(b, c).peer = IF c.from = b /\ c.peer = "open"
                                THEN "closed" ELSE c.peer
<1>1. CASE c.from = b /\ c.peer = "open"
  <2>1. Closed(b, c) = [c EXCEPT !.peer = "closed"]
    BY <1>1 DEF Closed
  <2> QED  BY <1>1, <2>1 DEF Connection
<1>2. CASE ~(c.from = b /\ c.peer = "open")
  BY <1>2 DEF Closed
<1> QED  BY <1>1, <1>2

LEMMA SweptConnections ==
  ASSUME NEW conns \in SUBSET Connection
  PROVE  /\ Swept(conns) \in SUBSET Connection
         /\ \A c \in Swept(conns) : \E d \in conns :
               /\ d.peer # "reset" /\ c.from = d.from /\ c.event = d.event
               /\ d.peer = "closed" => c = [d EXCEPT !.peer = "reset"]
               /\ d.peer = "closed" => c.peer = "reset"
               /\ d.peer = "open" => c = d
         /\ \A d \in conns : d.peer = "open" => d \in Swept(conns)
<1>1. ASSUME NEW d \in conns, d.peer = "closed"
      PROVE  /\ [d EXCEPT !.peer = "reset"] \in Connection
             /\ [d EXCEPT !.peer = "reset"].from = d.from
             /\ [d EXCEPT !.peer = "reset"].event = d.event
             /\ [d EXCEPT !.peer = "reset"].peer = "reset"
  <2>1. d \in Connection
    OBVIOUS
  <2> QED  BY <2>1 DEF Connection
<1>2. ASSUME NEW c \in Swept(conns)
      PROVE  /\ c \in Connection
             /\ \E d \in conns :
                  /\ d.peer # "reset" /\ c.from = d.from /\ c.event = d.event
                  /\ d.peer = "closed" => c = [d EXCEPT !.peer = "reset"]
                  /\ d.peer = "closed" => c.peer = "reset"
                  /\ d.peer = "open" => c = d
  <2>1. PICK d \in conns : /\ d.peer # "reset"
                           /\ c = IF d.peer = "closed"
                                  THEN [d EXCEPT !.peer = "reset"] ELSE d
    BY DEF Swept
  <2>2. CASE d.peer = "closed"
    BY <1>1, <2>1, <2>2
  <2>3. CASE d.peer # "closed"
    BY <2>1, <2>3
  <2> QED  BY <2>2, <2>3
<1>3. ASSUME NEW d \in conns, d.peer = "open" PROVE d \in Swept(conns)
  BY <1>3 DEF Swept
<1> QED  BY <1>2, <1>3

-----------------------------------------------------------------------------
(* What the actions on the connections do, element by element.             *)
LEMMA QueueElements ==
  ASSUME TypeOK, NEW s \in Setters
  PROVE  /\ rqueue[s] \in Seq(Connection) /\ Len(rqueue[s]) \in Nat
         /\ DOMAIN rqueue[s] = 1 .. Len(rqueue[s])
         /\ \A i \in 1 .. Len(rqueue[s]) : rqueue[s][i] \in Connection
         /\ rqueue[s] # <<>> => Len(rqueue[s]) \in Nat \ {0}
<1>1. rqueue[s] \in Seq(Connection)
  BY DEF TypeOK
<1> QED  BY <1>1, LenProperties, ElementOfSeq, EmptySeq

LEMMA InboxTyped == ASSUME TypeOK PROVE inbox \in [Blockers -> Seq(Text)]
BY DEF TypeOK, Text

LEMMA RemoteEffect ==
  ASSUME TypeOK, NEW s \in Setters, HandleRemote(s)
  PROVE  LET r == rqueue[s][1] IN
         /\ server[s] = "run" /\ Len(rqueue[s]) \in Nat \ {0}
         /\ r \in Connection
         /\ rqueue' \in [Setters -> Seq(Connection)]
         /\ Len(rqueue'[s]) = Len(rqueue[s]) - 1
         /\ \A i \in 1 .. Len(rqueue'[s]) : rqueue'[s][i] = rqueue[s][i + 1]
         /\ \A t \in Setters : t # s => /\ rqueue'[t] = rqueue[t]
                                        /\ wlist'[t] = wlist[t]
         /\ wlist' \in [Setters -> SUBSET Connection]
         /\ wlist'[s] = Swept(wlist[s])
                            \cup (IF r.event \in events[s] THEN {} ELSE {r})
         /\ inbox' \in [Blockers -> Seq(Text)]
         /\ \A b \in Blockers :
               /\ Occurs("EOF", inbox[b]) => Occurs("EOF", inbox'[b])
               /\ \A e \in States : Occurs(e, inbox'[b])
                      => Occurs(e, inbox[b]) \/ e \in events[s]
         /\ r.event \in events[s] /\ r.peer = "open"
                => Occurs("EOF", inbox'[r.from])
         /\ UNCHANGED <<path, port, listening, server, lqueue, events, setter,
                        blocker, turn>>
<1> DEFINE r == rqueue[s][1]
           pinged == Sent(inbox, wlist[s], <<"PING">>)
<1>0. Head(rqueue[s]) = r
  OBVIOUS
<1>1. /\ server[s] = "run" /\ rqueue[s] # <<>>
      /\ rqueue' = [rqueue EXCEPT ![s] = Tail(@)]
      /\ UNCHANGED <<path, port, listening, server, lqueue, events, setter,
                     blocker, turn>>
  BY DEF HandleRemote
<1>2. IF r.event \in events[s]
      THEN /\ wlist' = [wlist EXCEPT ![s] = Swept(@)]
           /\ inbox' = Sent(pinged, {r}, <<r.event, "EOF">>)
      ELSE /\ wlist' = [wlist EXCEPT ![s] = Swept(@) \cup {r}]
           /\ inbox' = pinged
  BY <1>0 DEF HandleRemote, IsSet
<1>3. /\ Len(rqueue[s]) \in Nat \ {0} /\ r \in Connection
      /\ rqueue[s] \in Seq(Connection)
  BY <1>1, QueueElements
<1>4. /\ Tail(rqueue[s]) \in Seq(Connection)
      /\ Len(Tail(rqueue[s])) = Len(rqueue[s]) - 1
      /\ \A i \in 1 .. Len(Tail(rqueue[s])) :
             Tail(rqueue[s])[i] = rqueue[s][i + 1]
  BY <1>1, <1>3, HeadTailProperties
<1>5. /\ rqueue' \in [Setters -> Seq(Connection)]
      /\ rqueue'[s] = Tail(rqueue[s])
      /\ \A t \in Setters : t # s => rqueue'[t] = rqueue[t]
  BY <1>1, <1>4 DEF TypeOK
<1>6. wlist[s] \in SUBSET Connection /\ events[s] \in SUBSET States
  BY DEF TypeOK
<1>7. Swept(wlist[s]) \in SUBSET Connection
  BY <1>6, SweptConnections
<1>8. /\ wlist' \in [Setters -> SUBSET Connection]
      /\ wlist'[s] = Swept(wlist[s])
                            \cup (IF r.event \in events[s] THEN {} ELSE {r})
      /\ \A t \in Setters : t # s => wlist'[t] = wlist[t]
  <2> HIDE DEF r, pinged
  <2>1. wlist' = [wlist EXCEPT ![s] = Swept(@)
                      \cup (IF r.event \in events[s] THEN {} ELSE {r})]
    BY <1>2
  <2>2. Swept(wlist[s]) \cup (IF r.event \in events[s] THEN {} ELSE {r})
            \in SUBSET Connection
    BY <1>3, <1>7
  <2> QED  BY <2>1, <2>2 DEF TypeOK
<1>9. inbox \in [Blockers -> Seq(Text)]
  BY InboxTyped
<1>10. /\ pinged \in [Blockers -> Seq(Text)]
       /\ \A b \in Blockers : \A m : m # "PING" =>
              (Occurs(m, pinged[b]) <=> Occurs(m, inbox[b]))
  BY <1>9, Pinged
<1>11. \A e \in States : e # "EOF" /\ e # "PING"
  BY Words
<1>12. /\ inbox' \in [Blockers -> Seq(Text)]
       /\ \A b \in Blockers :
             /\ Occurs("EOF", inbox[b]) => Occurs("EOF", inbox'[b])
             /\ \A e \in States : Occurs(e, inbox'[b])
                    => Occurs(e, inbox[b]) \/ e \in events[s]
       /\ r.event \in events[s] /\ r.peer = "open"
              => Occurs("EOF", inbox'[r.from])
  <2>1. r.from \in Blockers
    BY <1>3 DEF Connection
  <2> HIDE DEF r, pinged
  <2>2. CASE r.event \in events[s]
    <3>1. r.event \in States /\ inbox' = Sent(pinged, {r}, <<r.event, "EOF">>)
      BY <1>2, <1>6, <2>2
    <3>2. /\ inbox' \in [Blockers -> Seq(Text)]
          /\ \A b \in Blockers : \A m :
               /\ m \notin {r.event, "EOF"} =>
                     (Occurs(m, inbox'[b]) => Occurs(m, pinged[b]))
               /\ Occurs(m, pinged[b]) => Occurs(m, inbox'[b])
          /\ \A b \in Blockers :
               (\E c \in {r} : c.from = b /\ c.peer = "open")
                   => Occurs("EOF", inbox'[b])
      BY <1>10, <3>1, AnswerSent
    <3> QED  BY <1>10, <1>11, <2>1, <2>2, <3>1, <3>2
  <2>3. CASE r.event \notin events[s]
    BY <1>2, <1>10, <1>11, <2>3
  <2> QED  BY <2>2, <2>3
<1> QED  BY <1>1, <1>3, <1>4, <1>5, <1>8, <1>12

LEMMA LocalEffect ==
  ASSUME TypeOK, NEW s \in Setters, HandleLocal(s)
  PROVE  LET e == sets[lqueue[s][1]] IN
         /\ server[s] = "run" /\ Len(lqueue[s]) \in Nat \ {0}
         /\ lqueue[s][1] \in Setters /\ e \in States
         /\ lqueue' \in [Setters -> Seq(Setters)]
         /\ Len(lqueue'[s]) = Len(lqueue[s]) - 1
         /\ \A i \in 1 .. Len(lqueue'[s]) : lqueue'[s][i] = lqueue[s][i + 1]
         /\ \A t \in Setters : t # s => lqueue'[t] = lqueue[t]
         /\ events' = [events EXCEPT ![s] = @ \cup {e}]
         /\ wlist' = [wlist EXCEPT ![s] = {c \in @ : c.event # e}]
         /\ inbox' \in [Blockers -> Seq(Text)]
         /\ \A b \in Blockers :
               /\ Occurs("EOF", inbox[b]) => Occurs("EOF", inbox'[b])
               /\ \A m \in States :
                     Occurs(m, inbox'[b]) => Occurs(m, inbox[b]) \/ m = e
         /\ \A c \in wlist[s] : c.event = e /\ c.peer = "open"
                => Occurs("EOF", inbox'[c.from])
         /\ UNCHANGED <<path, port, listening, server, rqueue, setter, blocker,
                        turn>>
<1> DEFINE e == sets[lqueue[s][1]]
<1>1. /\ server[s] = "run" /\ lqueue[s] # <<>>
      /\ sets[Head(lqueue[s])] = e
      /\ lqueue' = [lqueue EXCEPT ![s] = Tail(@)]
      /\ UNCHANGED <<path, port, listening, server, rqueue, setter, blocker,
                     turn>>
  BY DEF HandleLocal
<1>2. /\ events' = [events EXCEPT ![s] = @ \cup {e}]
      /\ wlist' = [wlist EXCEPT ![s] = @ \ Woken(s, e)]
      /\ inbox' = Sent(inbox, Woken(s, e), <<e, "EOF">>)
  BY <1>1 DEF HandleLocal, Answer
<1>3. lqueue[s] \in Seq(Setters)
  BY DEF TypeOK
<1>4. Len(lqueue[s]) \in Nat \ {0}
  BY <1>1, <1>3, EmptySeq
<1>5. lqueue[s][1] \in Setters
  BY <1>3, <1>4, ElementOfSeq
<1>6. e \in States
  BY <1>5, SetsOneState
<1>7. /\ Tail(lqueue[s]) \in Seq(Setters)
      /\ Len(Tail(lqueue[s])) = Len(lqueue[s]) - 1
      /\ \A i \in 1 .. Len(Tail(lqueue[s])) :
             Tail(lqueue[s])[i] = lqueue[s][i + 1]
  BY <1>1, <1>3, HeadTailProperties
<1>8. /\ lqueue' \in [Setters -> Seq(Setters)]
      /\ lqueue'[s] = Tail(lqueue[s])
      /\ \A t \in Setters : t # s => lqueue'[t] = lqueue[t]
  BY <1>1, <1>7 DEF TypeOK
<1> HIDE DEF e
<1>9. wlist' = [wlist EXCEPT ![s] = {c \in @ : c.event # e}]
  <2>1. wlist[s] \ Woken(s, e) = {c \in wlist[s] : c.event # e}
    BY DEF Woken
  <2> QED  BY <1>2, <2>1 DEF TypeOK
<1>10. /\ inbox' \in [Blockers -> Seq(Text)]
       /\ \A b \in Blockers : \A m :
             /\ m \notin {e, "EOF"} =>
                   (Occurs(m, inbox'[b]) => Occurs(m, inbox[b]))
             /\ Occurs(m, inbox[b]) => Occurs(m, inbox'[b])
       /\ \A b \in Blockers :
             (\E c \in Woken(s, e) : c.from = b /\ c.peer = "open")
                 => Occurs("EOF", inbox'[b])
  BY <1>2, <1>6, InboxTyped, AnswerSent
<1>11. \A m \in States : m # "EOF"
  BY Words
<1>12. \A b \in Blockers :
             /\ Occurs("EOF", inbox[b]) => Occurs("EOF", inbox'[b])
             /\ \A m \in States :
                   Occurs(m, inbox'[b]) => Occurs(m, inbox[b]) \/ m = e
  BY <1>10, <1>11
<1>13. \A c \in wlist[s] : c.event = e /\ c.peer = "open"
           => Occurs("EOF", inbox'[c.from])
  <2>1. \A c \in wlist[s] : c.from \in Blockers
    BY DEF TypeOK, Connection
  <2>2. \A c \in wlist[s] : c.event = e => c \in Woken(s, e)
    BY DEF Woken
  <2> QED  BY <1>10, <2>1, <2>2
<1> QED  BY <1>1, <1>2, <1>4, <1>5, <1>6, <1>7, <1>8, <1>9, <1>10, <1>12,
            <1>13 DEF e

LEMMA QuitEffect ==
  ASSUME TypeOK, NEW s \in Setters, Quit(s)
  PROVE  /\ server[s] = "run" /\ server' = [server EXCEPT ![s] = "close"]
         /\ events' = [events EXCEPT ![s] = {}]
         /\ wlist' = [wlist EXCEPT ![s] = {}]
         /\ inbox' \in [Blockers -> Seq(Text)]
         /\ \A b \in Blockers : \A m :
               /\ m # "EOF" => (Occurs(m, inbox'[b]) => Occurs(m, inbox[b]))
               /\ Occurs(m, inbox[b]) => Occurs(m, inbox'[b])
         /\ \A b \in Blockers :
               (\E c \in wlist[s] : c.from = b /\ c.peer = "open")
                   => Occurs("EOF", inbox'[b])
         /\ UNCHANGED <<path, port, listening, lqueue, rqueue, setter, blocker,
                        turn>>
<1>1. inbox' = Sent(inbox, wlist[s], <<"EOF">>)
  BY DEF Quit
<1>2. inbox \in [Blockers -> Seq(Text)]
  BY InboxTyped
<1>3. /\ inbox' \in [Blockers -> Seq(Text)]
      /\ \A b \in Blockers : \A m :
            /\ m # "EOF" => (Occurs(m, inbox'[b]) => Occurs(m, inbox[b]))
            /\ Occurs(m, inbox[b]) => Occurs(m, inbox'[b])
      /\ \A b \in Blockers :
            (\E c \in wlist[s] : c.from = b /\ c.peer = "open")
                => Occurs("EOF", inbox'[b])
  BY <1>1, <1>2, EndSent
<1> QED  BY <1>3 DEF Quit, Serve

LEMMA CloseEffect ==
  ASSUME TypeOK, NEW s \in Setters, CloseSockets(s)
  PROVE  /\ server[s] = "close" /\ server' = [server EXCEPT ![s] = "unlink"]
         /\ listening' = listening \ {s}
         /\ port' = IF port = s THEN None ELSE port
         /\ lqueue' = [lqueue EXCEPT ![s] = <<>>]
         /\ rqueue' = [rqueue EXCEPT ![s] = <<>>]
         /\ inbox' \in [Blockers -> Seq(Text)]
         /\ \A b \in Blockers : \A m :
               /\ m # "EOF" => (Occurs(m, inbox'[b]) => Occurs(m, inbox[b]))
               /\ Occurs(m, inbox[b]) => Occurs(m, inbox'[b])
         /\ \A b \in Blockers : \A i \in 1 .. Len(rqueue[s]) :
               rqueue[s][i].from = b /\ rqueue[s][i].peer = "open"
                   => Occurs("EOF", inbox'[b])
         /\ UNCHANGED <<path, events, wlist, setter, blocker, turn>>
<1> DEFINE queued == {rqueue[s][i] : i \in DOMAIN rqueue[s]}
<1>1. inbox' = Sent(inbox, queued, <<"EOF">>)
  BY DEF CloseSockets
<1>2. inbox \in [Blockers -> Seq(Text)]
  BY InboxTyped
<1>3. \A i \in 1 .. Len(rqueue[s]) : rqueue[s][i] \in queued
  BY QueueElements
<1> HIDE DEF queued
<1>4. /\ inbox' \in [Blockers -> Seq(Text)]
      /\ \A b \in Blockers : \A m :
            /\ m # "EOF" => (Occurs(m, inbox'[b]) => Occurs(m, inbox[b]))
            /\ Occurs(m, inbox[b]) => Occurs(m, inbox'[b])
      /\ \A b \in Blockers :
            (\E c \in queued : c.from = b /\ c.peer = "open")
                => Occurs("EOF", inbox'[b])
  BY <1>1, <1>2, EndSent
<1>5. \A b \in Blockers : \A i \in 1 .. Len(rqueue[s]) :
          rqueue[s][i].from = b /\ rqueue[s][i].peer = "open"
              => Occurs("EOF", inbox'[b])
  BY <1>3, <1>4
<1> QED  BY <1>4, <1>5 DEF CloseSockets, Serve

LEMMA HangUpEffect ==
  ASSUME TypeOK, NEW b \in Blockers, HangUp(b)
  PROVE  /\ rqueue' \in [Setters -> Seq(Connection)]
         /\ \A s \in Setters :
               /\ Len(rqueue'[s]) = Len(rqueue[s])
               /\ \A i \in 1 .. Len(rqueue[s]) :
                     /\ rqueue'[s][i] = Closed(b, rqueue[s][i])
                     /\ rqueue'[s][i].from = rqueue[s][i].from
                     /\ rqueue'[s][i].peer =
                           IF /\ rqueue[s][i].from = b
                              /\ rqueue[s][i].peer = "open"
                           THEN "closed" ELSE rqueue[s][i].peer
         /\ wlist' \in [Setters -> SUBSET Connection]
         /\ \A s \in Setters :
               /\ \A c \in wlist'[s] : \E d \in wlist[s] :
                     /\ c = Closed(b, d) /\ c.from = d.from
                     /\ c.event = d.event
                     /\ c.peer = IF d.from = b /\ d.peer = "open"
                                 THEN "closed" ELSE d.peer
               /\ \A d \in wlist[s] : d.from # b => d \in wlist'[s]
         /\ inbox' = [inbox EXCEPT ![b] = <<>>]
         /\ inbox' \in [Blockers -> Seq(Text)]
         /\ UNCHANGED <<path, port, listening, server, lqueue, events, setter>>
<1>1. ASSUME NEW s \in Setters
      PROVE  /\ rqueue'[s] \in Seq(Connection)
             /\ Len(rqueue'[s]) = Len(rqueue[s])
             /\ \A i \in 1 .. Len(rqueue[s]) :
                   rqueue'[s][i] = Closed(b, rqueue[s][i])
  <2>1. rqueue'[s] = [i \in DOMAIN rqueue[s] |-> Closed(b, rqueue[s][i])]
    BY DEF HangUp
  <2>2. rqueue'[s] \in [1 .. Len(rqueue[s]) -> Connection]
    BY <2>1, QueueElements, ClosedConnection
  <2>3. rqueue'[s] \in Seq(Connection) /\ Len(rqueue'[s]) = Len(rqueue[s])
    BY <2>2, QueueElements, MapIsSeq
  <2> QED  BY <2>1, <2>3, QueueElements
<1>2. rqueue' \in [Setters -> Seq(Connection)]
  <2>1. rqueue' = [s \in Setters |-> rqueue'[s]]
    BY DEF HangUp
  <2> QED  BY <1>1, <2>1
<1>3. \A s \in Setters : \A i \in 1 .. Len(rqueue[s]) :
          /\ rqueue'[s][i].from = rqueue[s][i].from
          /\ rqueue'[s][i].peer = IF /\ rqueue[s][i].from = b
                                     /\ rqueue[s][i].peer = "open"
                                  THEN "closed" ELSE rqueue[s][i].peer
  BY <1>1, QueueElements, ClosedConnection
<1>4. ASSUME NEW s \in Setters
      PROVE  /\ wlist'[s] = {Closed(b, c) : c \in wlist[s]}
             /\ wlist[s] \in SUBSET Connection
  BY DEF HangUp, TypeOK
<1>5. ASSUME NEW s \in Setters, NEW c \in wlist'[s]
      PROVE  /\ c \in Connection
             /\ \E d \in wlist[s] :
                   /\ c = Closed(b, d) /\ c.from = d.from
                   /\ c.event = d.event
                   /\ c.peer = IF d.from = b /\ d.peer = "open"
                               THEN "closed" ELSE d.peer
  <2>1. PICK d \in wlist[s] : c = Closed(b, d)
    BY <1>4
  <2>2. d \in Connection
    BY <1>4
  <2> QED  BY <2>1, <2>2, ClosedConnection
<1>6. \A s \in Setters : \A d \in wlist[s] : d.from # b => d \in wlist'[s]
  BY <1>4 DEF Closed
<1>7. wlist' \in [Setters -> SUBSET Connection]
  <2>1. wlist' = [s \in Setters |-> wlist'[s]]
    BY DEF HangUp
  <2> QED  BY <1>5, <2>1
<1>8. inbox' = [inbox EXCEPT ![b] = <<>>]
  BY DEF HangUp
<1>9. inbox' \in [Blockers -> Seq(Text)]
  BY <1>8, InboxTyped, EmptySeq
<1>10. UNCHANGED <<path, port, listening, server, lqueue, events, setter>>
  BY DEF HangUp
<1> QED  BY <1>1, <1>2, <1>3, <1>5, <1>6, <1>7, <1>8, <1>9, <1>10

LEMMA ConnectsEffect ==
  ASSUME TypeOK, NEW b \in Blockers, Connects(b)
  PROVE  /\ port \in Setters /\ blocker[b] = "next"
         /\ blocker' = [blocker EXCEPT ![b] = "connected"]
         /\ rqueue' \in [Setters -> Seq(Connection)]
         /\ \A s \in Setters : s # port => rqueue'[s] = rqueue[s]
         /\ Len(rqueue'[port]) = Len(rqueue[port]) + 1
         /\ \A i \in 1 .. Len(rqueue[port]) :
               rqueue'[port][i] = rqueue[port][i]
         /\ rqueue'[port][Len(rqueue[port]) + 1].from = b
         /\ rqueue'[port][Len(rqueue[port]) + 1].peer = "open"
         /\ UNCHANGED <<path, port, listening, server, lqueue, events, wlist,
                        setter, turn, inbox>>
<1> DEFINE new == [from |-> b, event |-> "", peer |-> "open"]
<1>1. new \in Connection /\ new.from = b /\ new.peer = "open"
  BY DEF Connection, Requested
<1> HIDE DEF new
<1>2. port \in Setters
  BY DEF Connects, TypeOK
<1>3. rqueue' = [rqueue EXCEPT ![port] = Append(@, new)]
  BY DEF Connects, new
<1>4. /\ Append(rqueue[port], new) \in Seq(Connection)
      /\ Len(Append(rqueue[port], new)) = Len(rqueue[port]) + 1
      /\ \A i \in 1 .. Len(rqueue[port]) :
            Append(rqueue[port], new)[i] = rqueue[port][i]
      /\ Append(rqueue[port], new)[Len(rqueue[port]) + 1] = new
  BY <1>1, <1>2, AppendProperties DEF TypeOK
<1>5. /\ rqueue' \in [Setters -> Seq(Connection)]
      /\ rqueue'[port] = Append(rqueue[port], new)
      /\ \A s \in Setters : s # port => rqueue'[s] = rqueue[s]
  BY <1>2, <1>3, <1>4 DEF TypeOK
<1> QED  BY <1>1, <1>2, <1>4, <1>5 DEF Connects, Goes

LEMMA SendsEffect ==
  ASSUME TypeOK, NEW b \in Blockers, SendsState(b)
  PROVE  /\ blocker[b] = "connected"
         /\ blocker' = [blocker EXCEPT ![b] = "sent"]
         /\ rqueue' \in [Setters -> Seq(Connection)]
         /\ \A s \in Setters :
               /\ Len(rqueue'[s]) = Len(rqueue[s])
               /\ \A i \in 1 .. Len(rqueue[s]) :
                     /\ rqueue'[s][i].from = rqueue[s][i].from
                     /\ rqueue'[s][i].peer = rqueue[s][i].peer
         /\ UNCHANGED <<path, port, listening, server, lqueue, events, wlist,
                        setter, turn, inbox>>
<1> DEFINE Told(c) == IF c.from = b /\ c.peer = "open"
                      THEN [c EXCEPT !.event = Asks(b)] ELSE c
<1>1. Asks(b) \in States
  <2>1. turn[b] \in 1 .. Len(wanted[b])
    BY Wanted DEF TypeOK
  <2> QED  BY <2>1, Wanted, ElementOfSeq DEF Asks
<1>2. ASSUME NEW c \in Connection
      PROVE  /\ Told(c) \in Connection /\ Told(c).from = c.from
             /\ Told(c).peer = c.peer
  <2>1. CASE c.from = b /\ c.peer = "open"
    <3>1. Told(c) = [c EXCEPT !.event = Asks(b)]
      BY <2>1
    <3> HIDE DEF Told
    <3> QED  BY <1>1, <3>1 DEF Connection, Requested
  <2>2. CASE ~(c.from = b /\ c.peer = "open")
    BY <2>2
  <2> QED  BY <2>1, <2>2
<1>3. rqueue' = [s \in Setters |-> [i \in DOMAIN rqueue[s] |->
                                       Told(rqueue[s][i])]]
  BY DEF SendsState
<1> HIDE DEF Told
<1>4. ASSUME NEW s \in Setters
      PROVE  /\ rqueue'[s] \in Seq(Connection)
             /\ Len(rqueue'[s]) = Len(rqueue[s])
             /\ \A i \in 1 .. Len(rqueue[s]) :
                   /\ rqueue'[s][i].from = rqueue[s][i].from
                   /\ rqueue'[s][i].peer = rqueue[s][i].peer
  <2>1. rqueue'[s] = [i \in 1 .. Len(rqueue[s]) |-> Told(rqueue[s][i])]
    BY <1>3, QueueElements
  <2>2. rqueue'[s] \in [1 .. Len(rqueue[s]) -> Connection]
    BY <1>2, <2>1, QueueElements
  <2>3. rqueue'[s] \in Seq(Connection) /\ Len(rqueue'[s]) = Len(rqueue[s])
    BY <2>2, QueueElements, MapIsSeq
  <2> QED  BY <1>2, <2>1, <2>3, QueueElements
<1>5. rqueue' \in [Setters -> Seq(Connection)]
  <2>1. rqueue' = [s \in Setters |-> rqueue'[s]]
    BY <1>3
  <2> QED  BY <1>4, <2>1
<1> QED  BY <1>4, <1>5 DEF SendsState, Goes

LEMMA ReceivesEffect ==
  ASSUME TypeOK, NEW b \in Blockers, Receives(b)
  PROVE  \/ /\ HangUp(b) /\ UNCHANGED turn
            /\ blocker[b] = "sent"
            /\ blocker' = [blocker EXCEPT ![b] = "released"]
            /\ Asks(b) \in States /\ Occurs(Asks(b), inbox[b])
         \/ /\ inbox' \in [Blockers -> Seq(Text)]
            /\ \A c \in Blockers : c # b => inbox'[c] = inbox[c]
            /\ Occurs("EOF", inbox'[b]) <=> Occurs("EOF", inbox[b])
            /\ \A m : m # "EOF" => ~Occurs(m, inbox'[b])
            /\ UNCHANGED <<path, port, listening, server, lqueue, rqueue,
                           events, wlist, setter, blocker, turn>>
<1>1. inbox[b] \in Seq(Text) /\ inbox[b] # <<>>
  BY DEF TypeOK, Text, Receives
<1>2. /\ Len(inbox[b]) \in Nat \ {0} /\ DOMAIN inbox[b] = 1 .. Len(inbox[b])
  BY <1>1, EmptySeq, LenProperties
<1>3. CASE Matches(b, Head(inbox[b])) /\ HangUp(b)
  <2>1. Asks(b) = inbox[b][1]
    BY <1>3 DEF Matches
  <2>2. Occurs(Asks(b), inbox[b])
    BY <1>2, <2>1 DEF Occurs
  <2>3. turn[b] \in 1 .. Len(wanted[b])
    BY Wanted DEF TypeOK
  <2>4. Asks(b) \in States
    BY <2>3, Wanted, ElementOfSeq DEF Asks
  <2>5. ~(~Matches(b, Head(inbox[b])))
    BY <1>3
  <2>6. blocker[b] = "sent" /\ blocker' = [blocker EXCEPT ![b] = "released"]
        /\ UNCHANGED turn
    BY <2>5 DEF Receives, Goes
  <2> QED  BY <1>3, <2>2, <2>4, <2>6
<1>4. CASE ~Matches(b, Head(inbox[b]))
  <2> DEFINE left == IF Ended(b) THEN <<"EOF">> ELSE <<>>
  <2>1. /\ inbox' = [inbox EXCEPT ![b] = left]
        /\ UNCHANGED <<path, port, listening, server, lqueue, rqueue,
                       events, wlist, setter, blocker, turn>>
    BY <1>4 DEF Receives
  <2>2. inbox' = [inbox EXCEPT ![b] = left]
    BY <2>1
  <2>3. Ended(b) <=> Occurs("EOF", inbox[b])
    BY <1>2 DEF Ended, Occurs
  <2>4. /\ <<"EOF">> \in Seq(Text) /\ \A m : Occurs(m, <<"EOF">>) <=> m = "EOF"
    BY OneMessage
  <2>5. <<>> \in Seq(Text) /\ \A m : ~Occurs(m, <<>>)
    BY EmptySeq DEF Occurs
  <2>6. /\ left \in Seq(Text)
        /\ Occurs("EOF", left) <=> Ended(b)
        /\ \A m : m # "EOF" => ~Occurs(m, left)
    BY <2>4, <2>5
  <2> HIDE DEF left
  <2>7. inbox \in [Blockers -> Seq(Text)]
    BY InboxTyped
  <2>8. inbox' \in [Blockers -> Seq(Text)] /\ inbox'[b] = left
        /\ \A c \in Blockers : c # b => inbox'[c] = inbox[c]
    BY <2>2, <2>6, <2>7
  <2> QED  BY <2>1, <2>3, <2>6, <2>8
<1> QED  BY <1>3, <1>4 DEF Receives

-----------------------------------------------------------------------------
(* The types.                                                              *)
LEMMA InitTyped == Init => TypeOK
<1> SUFFICES ASSUME Init PROVE TypeOK
  OBVIOUS
<1>1. <<>> \in Seq(Setters) /\ <<>> \in Seq(Connection)
      /\ <<>> \in Seq(States \cup {"PING", "EOF"})
  BY EmptySeq
<1>2. \A b \in Blockers : 1 \in DOMAIN wanted[b]
  BY Wanted
<1> QED  BY <1>1, <1>2 DEF Init, TypeOK

LEMMA SetTyped ==
  ASSUME TypeOK, NEW s \in Setters, Set(s) \/ SetStep(s)
  PROVE  TypeOK'
<1>1. CASE SetConnects(s, "idle") \/ SetConnects(s, "found")
  <2>1. /\ path \in listening
        /\ lqueue' = [lqueue EXCEPT ![path] = Append(@, s)]
        /\ setter' = [setter EXCEPT ![s] = "done"]
        /\ UNCHANGED <<path, port, listening, server, rqueue, events, wlist,
                       blocker, turn, inbox>>
    BY <1>1 DEF SetConnects, Move, SendSet
  <2>2. path \in Setters /\ lqueue[path] \in Seq(Setters)
    BY <2>1 DEF TypeOK
  <2>3. Append(lqueue[path], s) \in Seq(Setters)
    BY <2>2, AppendProperties
  <2>4. lqueue' \in [Setters -> Seq(Setters)]
    BY <2>1, <2>3 DEF TypeOK
  <2>5. setter' \in [Setters -> {"idle", "waiting", "found", "done", "failed"}]
    BY <2>1 DEF TypeOK
  <2> QED  BY <2>1, <2>4, <2>5 DEF TypeOK
<1>2. CASE SetForks(s)
  BY <1>2 DEF TypeOK, SetForks, Move
<1>3. CASE SetFinds(s) \/ SetFails(s)
  BY <1>3 DEF TypeOK, SetFinds, SetFails, Move
<1> QED  BY <1>1, <1>2, <1>3 DEF Set, SetStep

LEMMA StartsTyped == ASSUME TypeOK, NEW s \in Setters, Starts(s) PROVE TypeOK'
<1>1. /\ server' \in [Setters ->
                        {"none", "bind_local", "listen_local", "bind_remote",
                         "run", "close", "unlink", "gone"}]
      /\ path' \in Setters \cup {None, Leftover}
      /\ port' \in Setters \cup {None}
      /\ listening' \in SUBSET Setters
      /\ UNCHANGED <<lqueue, rqueue, events, wlist, setter, blocker, turn,
                     inbox>>
  BY DEF TypeOK, Starts, BindLocal, ListenLocal, BindRemote, Serve
<1> QED  BY <1>1 DEF TypeOK

LEMMA HandlersTyped ==
  ASSUME TypeOK, NEW s \in Setters, HandleRemote(s) \/ HandleLocal(s)
  PROVE  TypeOK'
<1>1. CASE HandleRemote(s)
  <2>1. /\ rqueue' \in [Setters -> Seq(Connection)]
        /\ wlist' \in [Setters -> SUBSET Connection]
        /\ inbox' \in [Blockers -> Seq(Text)]
        /\ UNCHANGED <<path, port, listening, server, lqueue, events, setter,
                       blocker, turn>>
    BY <1>1, RemoteEffect
  <2> QED  BY <2>1 DEF TypeOK, Text
<1>2. CASE HandleLocal(s)
  <2> DEFINE e == sets[lqueue[s][1]]
  <2>1. /\ e \in States /\ lqueue' \in [Setters -> Seq(Setters)]
        /\ events' = [events EXCEPT ![s] = @ \cup {e}]
        /\ wlist' = [wlist EXCEPT ![s] = {c \in @ : c.event # e}]
        /\ inbox' \in [Blockers -> Seq(Text)]
        /\ UNCHANGED <<path, port, listening, server, rqueue, setter, blocker,
                       turn>>
    BY <1>2, LocalEffect
  <2> HIDE DEF e
  <2>2. /\ events' \in [Setters -> SUBSET States]
        /\ wlist' \in [Setters -> SUBSET Connection]
    BY <2>1 DEF TypeOK
  <2> QED  BY <2>1, <2>2 DEF TypeOK, Text
<1> QED  BY <1>1, <1>2

LEMMA EndsTyped ==
  ASSUME TypeOK, NEW s \in Setters, Ends(s) \/ Quit(s)
  PROVE  TypeOK'
<1>1. CASE CloseSockets(s)
  <2>1. <<>> \in Seq(Setters) /\ <<>> \in Seq(Connection)
    BY EmptySeq
  <2>2. /\ server' = [server EXCEPT ![s] = "unlink"]
        /\ listening' = listening \ {s}
        /\ port' = IF port = s THEN None ELSE port
        /\ lqueue' = [lqueue EXCEPT ![s] = <<>>]
        /\ rqueue' = [rqueue EXCEPT ![s] = <<>>]
        /\ inbox' \in [Blockers -> Seq(Text)]
        /\ UNCHANGED <<path, events, wlist, setter, blocker, turn>>
    BY <1>1, CloseEffect
  <2> QED  BY <2>1, <2>2 DEF TypeOK, Text
<1>2. CASE Unlink(s)
  BY <1>2 DEF TypeOK, Unlink, Serve
<1>3. CASE Quit(s)
  <2>1. /\ server' = [server EXCEPT ![s] = "close"]
        /\ events' = [events EXCEPT ![s] = {}]
        /\ wlist' = [wlist EXCEPT ![s] = {}]
        /\ inbox' \in [Blockers -> Seq(Text)]
        /\ UNCHANGED <<path, port, listening, lqueue, rqueue, setter, blocker,
                       turn>>
    BY <1>3, QuitEffect
  <2> QED  BY <2>1 DEF TypeOK, Text
<1> QED  BY <1>1, <1>2, <1>3 DEF Ends

LEMMA NextTurnTyped ==
  ASSUME TypeOK, NEW b \in Blockers, NextTurn(b)
  PROVE  /\ turn' \in [Blockers -> Nat]
         /\ \A c \in Blockers : turn'[c] \in DOMAIN wanted[c]
<1>1. Len(wanted[b]) \in Nat \ {0} /\ DOMAIN wanted[b] = 1 .. Len(wanted[b])
  BY Wanted
<1>2. turn[b] \in 1 .. Len(wanted[b])
  BY <1>1 DEF TypeOK
<1>3. /\ turn' \in [Blockers -> Nat]
      /\ turn'[b] = IF turn[b] < Len(wanted[b]) THEN turn[b] + 1 ELSE 1
      /\ \A c \in Blockers : c # b => turn'[c] = turn[c]
  BY <1>2 DEF TypeOK, NextTurn
<1>4. turn'[b] \in 1 .. Len(wanted[b])
  BY <1>1, <1>2, <1>3
<1> QED  BY <1>1, <1>3, <1>4 DEF TypeOK

LEMMA HangUpTyped ==
  ASSUME TypeOK, NEW b \in Blockers, HangUp(b),
         blocker' \in [Blockers -> {"next", "connected", "sent", "released",
                                    "killed"}],
         NextTurn(b) \/ UNCHANGED turn
  PROVE  TypeOK'
<1>1. /\ rqueue' \in [Setters -> Seq(Connection)]
      /\ wlist' \in [Setters -> SUBSET Connection]
      /\ inbox' \in [Blockers -> Seq(Text)]
      /\ UNCHANGED <<path, port, listening, server, lqueue, events, setter>>
  BY HangUpEffect
<1>2. /\ turn' \in [Blockers -> Nat]
      /\ \A c \in Blockers : turn'[c] \in DOMAIN wanted[c]
  BY NextTurnTyped DEF TypeOK
<1> QED  BY <1>1, <1>2 DEF TypeOK, Text

LEMMA BlockTyped ==
  ASSUME TypeOK, NEW b \in Blockers, BlockStep(b) \/ Killed(b)
  PROVE  TypeOK'
<1>1. CASE Connects(b)
  <2>1. /\ blocker' = [blocker EXCEPT ![b] = "connected"]
        /\ rqueue' \in [Setters -> Seq(Connection)]
        /\ UNCHANGED <<path, port, listening, server, lqueue, events, wlist,
                       setter, turn, inbox>>
    BY <1>1, ConnectsEffect
  <2> QED  BY <2>1 DEF TypeOK
<1>2. CASE ConnectFails(b)
  BY <1>2, NextTurnTyped DEF TypeOK, ConnectFails
<1>3. CASE SendsState(b)
  <2>1. /\ blocker' = [blocker EXCEPT ![b] = "sent"]
        /\ rqueue' \in [Setters -> Seq(Connection)]
        /\ UNCHANGED <<path, port, listening, server, lqueue, events, wlist,
                       setter, turn, inbox>>
    BY <1>3, SendsEffect
  <2> QED  BY <2>1 DEF TypeOK
<1>4. CASE Receives(b)
  <2>1. CASE HangUp(b) /\ UNCHANGED turn
             /\ blocker' = [blocker EXCEPT ![b] = "released"]
    BY <2>1, HangUpTyped DEF TypeOK
  <2>2. CASE /\ inbox' \in [Blockers -> Seq(Text)]
             /\ UNCHANGED <<path, port, listening, server, lqueue, rqueue,
                            events, wlist, setter, blocker, turn>>
    BY <2>2 DEF TypeOK, Text
  <2> QED  BY <1>4, <2>1, <2>2, ReceivesEffect
<1>5. CASE GivesUp(b)
  BY <1>5, HangUpTyped DEF TypeOK, GivesUp, Fails, Goes
<1>6. CASE Killed(b)
  BY <1>6, HangUpTyped DEF TypeOK, Killed, Goes
<1> QED  BY <1>1, <1>2, <1>3, <1>4, <1>5, <1>6 DEF BlockStep

LEMMA StepTyped == TypeOK /\ [Next]_vars => TypeOK'
<1> SUFFICES ASSUME TypeOK, [Next]_vars PROVE TypeOK'
  OBVIOUS
<1>1. CASE \E s \in Setters : Set(s) \/ SetStep(s) \/ ServerStep(s) \/ Quit(s)
  BY <1>1, SetTyped, StartsTyped, HandlersTyped, EndsTyped DEF ServerStep
<1>2. CASE \E b \in Blockers : BlockStep(b) \/ Killed(b)
  BY <1>2, BlockTyped
<1>3. CASE UNCHANGED vars
  BY <1>3 DEF TypeOK
<1> QED  BY <1>1, <1>2, <1>3 DEF Next

-----------------------------------------------------------------------------
(* No early return: what a queue of sets, a server or a client holds was   *)
(* set by a command that is done.                                          *)
Holds(e) == \E s \in Setters : setter[s] = "done" /\ sets[s] = e

SetsAreDone ==
    \A s \in Setters : \A i \in 1 .. Len(lqueue[s]) :
        setter[lqueue[s][i]] = "done"

EventsHold == \A s \in Setters : \A e \in events[s] : Holds(e)

AnswersHold ==
    \A b \in Blockers : \A e \in States : Occurs(e, inbox[b]) => Holds(e)

Truth == SetsAreDone /\ EventsHold /\ AnswersHold /\ NoFalseRelease

LEMMA DoneStays ==
  ASSUME TypeOK, [Next]_vars, NEW s \in Setters, setter[s] = "done"
  PROVE  setter'[s] = "done"
<1>1. ASSUME NEW t \in Setters,
             Set(t) \/ SetStep(t) \/ ServerStep(t) \/ Quit(t)
      PROVE  setter'[s] = "done"
  <2>1. CASE Set(t)
    BY <2>1 DEF TypeOK, Set, SetConnects, SetForks, Move
  <2>2. CASE SetStep(t)
    BY <2>2 DEF TypeOK, SetStep, SetConnects, SetFinds, SetFails, Move
  <2>3. CASE ServerStep(t) \/ Quit(t)
    BY <2>3 DEF ServerStep, Quit, Starts, BindLocal, ListenLocal, BindRemote,
                HandleRemote, HandleLocal, Ends, CloseSockets, Unlink
  <2> QED  BY <1>1, <2>1, <2>2, <2>3
<1>2. ASSUME NEW b \in Blockers, BlockStep(b) \/ Killed(b)
      PROVE  UNCHANGED setter
  BY <1>2 DEF BlockStep, Connects, ConnectFails, SendsState, Receives, GivesUp,
              Fails, Killed, HangUp
<1> QED  BY <1>1, <1>2 DEF Next

LEMMA InitTruth == Init => Truth
<1> SUFFICES ASSUME Init PROVE Truth
  OBVIOUS
<1>1. Len(<<>>) = 0
  OBVIOUS
<1> QED  BY <1>1 DEF Init, Truth, SetsAreDone, EventsHold, AnswersHold, Occurs,
                    NoFalseRelease

(* What was true stays true, whatever the step.                            *)
LEMMA HoldsStays ==
  ASSUME TypeOK, [Next]_vars
  PROVE  \A e : Holds(e) => Holds(e)'
<1> SUFFICES ASSUME NEW e, Holds(e) PROVE Holds(e)'
  OBVIOUS
<1>1. PICK s \in Setters : setter[s] = "done" /\ sets[s] = e
  BY DEF Holds
<1>2. setter'[s] = "done"
  BY <1>1, DoneStays
<1> QED  BY <1>1, <1>2 DEF Holds

LEMMA SetsAreDoneStep ==
  ASSUME TypeOK, SetsAreDone, [Next]_vars
  PROVE  SetsAreDone'
<1> SUFFICES ASSUME NEW s \in Setters, NEW i \in 1 .. Len(lqueue'[s])
             PROVE  setter'[lqueue'[s][i]] = "done"
  BY DEF SetsAreDone
<1>1. /\ lqueue[s] \in Seq(Setters) /\ Len(lqueue[s]) \in Nat
      /\ \A j \in 1 .. Len(lqueue[s]) : lqueue[s][j] \in Setters
  BY LenProperties, ElementOfSeq DEF TypeOK
<1>2. ASSUME NEW j \in 1 .. Len(lqueue[s]), lqueue'[s][i] = lqueue[s][j]
      PROVE  setter'[lqueue'[s][i]] = "done"
  BY <1>1, <1>2, DoneStays DEF SetsAreDone
<1>3. CASE lqueue'[s] = lqueue[s]
  BY <1>2, <1>3
<1>4. ASSUME NEW t \in Setters,
             SetConnects(t, "idle") \/ SetConnects(t, "found")
      PROVE  setter'[lqueue'[s][i]] = "done"
  <2>1. /\ path \in Setters
        /\ lqueue' = [lqueue EXCEPT ![path] = Append(@, t)]
        /\ setter' = [setter EXCEPT ![t] = "done"]
    BY <1>4 DEF SetConnects, Move, SendSet, TypeOK
  <2>2. CASE s = path
    <3>1. lqueue'[s] = Append(lqueue[s], t)
      BY <2>1, <2>2 DEF TypeOK
    <3>2. /\ Len(lqueue'[s]) = Len(lqueue[s]) + 1
          /\ \A j \in 1 .. Len(lqueue[s]) : lqueue'[s][j] = lqueue[s][j]
          /\ lqueue'[s][Len(lqueue[s]) + 1] = t
      BY <1>1, <3>1, AppendProperties
    <3>3. CASE i = Len(lqueue[s]) + 1
      BY <2>1, <3>2, <3>3 DEF TypeOK
    <3>4. CASE i # Len(lqueue[s]) + 1
      <4>1. i \in 1 .. Len(lqueue[s])
        BY <1>1, <3>2, <3>4
      <4> QED  BY <1>2, <3>2, <4>1
    <3> QED  BY <3>3, <3>4
  <2>3. CASE s # path
    <3>1. lqueue'[s] = lqueue[s]
      BY <2>1, <2>3 DEF TypeOK
    <3> QED  BY <1>3, <3>1
  <2> QED  BY <2>2, <2>3
<1>5. ASSUME NEW t \in Setters, HandleLocal(t)
      PROVE  setter'[lqueue'[s][i]] = "done"
  <2>1. /\ Len(lqueue'[t]) = Len(lqueue[t]) - 1
        /\ \A j \in 1 .. Len(lqueue'[t]) : lqueue'[t][j] = lqueue[t][j + 1]
        /\ s # t => lqueue'[s] = lqueue[s]
    BY <1>5, LocalEffect
  <2>2. CASE s = t
    <3>1. i + 1 \in 1 .. Len(lqueue[s])
      BY <1>1, <2>1, <2>2
    <3> QED  BY <1>2, <2>1, <2>2, <3>1
  <2> QED  BY <1>3, <2>1, <2>2
<1>6. ASSUME NEW t \in Setters, CloseSockets(t)
      PROVE  setter'[lqueue'[s][i]] = "done"
  <2>1. lqueue' = [lqueue EXCEPT ![t] = <<>>]
    BY <1>6, CloseEffect
  <2>2. CASE s = t
    <3>1. lqueue'[s] = <<>>
      BY <2>1, <2>2 DEF TypeOK
    <3> QED  BY <3>1
  <2>3. CASE s # t
    BY <1>3, <2>1, <2>3 DEF TypeOK
  <2> QED  BY <2>2, <2>3
<1>7. ASSUME NEW t \in Setters,
             \/ SetForks(t) \/ SetFinds(t) \/ SetFails(t) \/ Starts(t)
             \/ HandleRemote(t) \/ Quit(t) \/ Unlink(t)
      PROVE  UNCHANGED lqueue
  BY <1>7 DEF SetForks, SetFinds, SetFails, Starts, BindLocal, ListenLocal,
              BindRemote, HandleRemote, Quit, Unlink
<1>8. ASSUME NEW b \in Blockers, BlockStep(b) \/ Killed(b)
      PROVE  UNCHANGED lqueue
  BY <1>8 DEF BlockStep, Connects, ConnectFails, SendsState, Receives, GivesUp,
              Fails, Killed, HangUp
<1> QED  BY <1>3, <1>4, <1>5, <1>6, <1>7, <1>8
            DEF Next, Set, SetStep, ServerStep, Ends

LEMMA EventsHoldStep ==
  ASSUME TypeOK, SetsAreDone, EventsHold, [Next]_vars
  PROVE  EventsHold'
<1> SUFFICES ASSUME NEW s \in Setters, NEW e \in events'[s]
             PROVE  Holds(e)'
  BY DEF EventsHold
<1>1. CASE e \in events[s]
  BY <1>1, HoldsStays DEF EventsHold
<1>2. ASSUME NEW t \in Setters, HandleLocal(t)
      PROVE  Holds(e)'
  <2>1. /\ Len(lqueue[t]) \in Nat \ {0} /\ lqueue[t][1] \in Setters
        /\ events' = [events EXCEPT ![t] = @ \cup {sets[lqueue[t][1]]}]
    BY <1>2, LocalEffect
  <2>2. Holds(sets[lqueue[t][1]])
    <3>1. setter[lqueue[t][1]] = "done"
      BY <2>1 DEF SetsAreDone
    <3> QED  BY <2>1, <3>1 DEF Holds
  <2>3. CASE e = sets[lqueue[t][1]]
    BY <2>2, <2>3, HoldsStays
  <2>4. CASE e # sets[lqueue[t][1]]
    <3>1. e \in events[s]
      BY <2>1, <2>4 DEF TypeOK
    <3> QED  BY <1>1, <3>1
  <2> QED  BY <2>3, <2>4
<1>3. ASSUME NEW t \in Setters, Quit(t)
      PROVE  e \in events[s]
  <2>1. events' = [events EXCEPT ![t] = {}]
    BY <1>3 DEF Quit
  <2> QED  BY <2>1 DEF TypeOK
<1>4. ASSUME NEW t \in Setters,
             Set(t) \/ SetStep(t) \/ Starts(t) \/ HandleRemote(t) \/ Ends(t)
      PROVE  UNCHANGED events
  BY <1>4 DEF Set, SetStep, SetConnects, SetForks, SetFinds, SetFails, Starts,
              BindLocal, ListenLocal, BindRemote, HandleRemote, Ends,
              CloseSockets, Unlink
<1>5. ASSUME NEW b \in Blockers, BlockStep(b) \/ Killed(b)
      PROVE  UNCHANGED events
  BY <1>5 DEF BlockStep, Connects, ConnectFails, SendsState, Receives, GivesUp,
              Fails, Killed, HangUp
<1> QED  BY <1>1, <1>2, <1>3, <1>4, <1>5 DEF Next, ServerStep

LEMMA AnswersHoldStep ==
  ASSUME TypeOK, SetsAreDone, EventsHold, AnswersHold, [Next]_vars
  PROVE  AnswersHold'
<1> SUFFICES ASSUME NEW b \in Blockers, NEW e \in States,
                    Occurs(e, inbox'[b])
             PROVE  Holds(e)'
  BY DEF AnswersHold, Occurs
<1>1. e # "EOF"
  BY Words
<1>2. CASE Occurs(e, inbox[b])
  BY <1>2, HoldsStays DEF AnswersHold
<1>3. ASSUME NEW t \in Setters, HandleRemote(t)
      PROVE  Holds(e)'
  <2>1. Occurs(e, inbox[b]) \/ e \in events[t]
    BY <1>3, RemoteEffect
  <2>2. e \in events[t] => Holds(e)
    BY DEF EventsHold
  <2> QED  BY <1>2, <2>1, <2>2, HoldsStays
<1>4. ASSUME NEW t \in Setters, HandleLocal(t)
      PROVE  Holds(e)'
  <2>1. /\ Len(lqueue[t]) \in Nat \ {0} /\ lqueue[t][1] \in Setters
        /\ Occurs(e, inbox[b]) \/ e = sets[lqueue[t][1]]
    BY <1>4, LocalEffect
  <2>2. e = sets[lqueue[t][1]] => Holds(e)
    <3>1. setter[lqueue[t][1]] = "done"
      BY <2>1 DEF SetsAreDone
    <3> QED  BY <2>1, <3>1 DEF Holds
  <2> QED  BY <1>2, <2>1, <2>2, HoldsStays
<1>5. ASSUME NEW t \in Setters, Quit(t) \/ CloseSockets(t)
      PROVE  Occurs(e, inbox[b])
  BY <1>1, <1>5, QuitEffect, CloseEffect
<1>6. ASSUME NEW c \in Blockers, HangUp(c)
      PROVE  Occurs(e, inbox[b])
  <2>1. inbox' = [inbox EXCEPT ![c] = <<>>]
    BY <1>6 DEF HangUp
  <2>2. ~Occurs(e, <<>>)
    BY DEF Occurs
  <2> QED  BY <2>1, <2>2 DEF TypeOK
<1>7. ASSUME NEW c \in Blockers, Receives(c)
      PROVE  Occurs(e, inbox[b])
  <2>1. CASE HangUp(c)
    BY <1>6, <2>1
  <2>2. CASE /\ \A d \in Blockers : d # c => inbox'[d] = inbox[d]
             /\ \A m : m # "EOF" => ~Occurs(m, inbox'[c])
    BY <1>1, <2>2
  <2> QED  BY <1>7, <2>1, <2>2, ReceivesEffect
<1>8. ASSUME NEW t \in Setters,
             Set(t) \/ SetStep(t) \/ Starts(t) \/ Unlink(t)
      PROVE  UNCHANGED inbox
  BY <1>8 DEF Set, SetStep, SetConnects, SetForks, SetFinds, SetFails, Starts,
              BindLocal, ListenLocal, BindRemote, Unlink
<1>9. ASSUME NEW c \in Blockers,
             Connects(c) \/ ConnectFails(c) \/ SendsState(c)
      PROVE  UNCHANGED inbox
  BY <1>9 DEF Connects, ConnectFails, SendsState
<1>10. CASE UNCHANGED inbox
  BY <1>2, <1>10
<1> QED  BY <1>2, <1>3, <1>4, <1>5, <1>6, <1>7, <1>8, <1>9, <1>10
            DEF Next, ServerStep, Ends, BlockStep, GivesUp, Fails, Killed

(* A released script asks for nothing else any more.                       *)
LEMMA ReleaseStep ==
  ASSUME TypeOK, AnswersHold, NoFalseRelease, [Next]_vars
  PROVE  NoFalseRelease'
<1> SUFFICES ASSUME NEW b \in Blockers, blocker'[b] = "released"
             PROVE  \E s \in Setters :
                        setter'[s] = "done" /\ sets[s] = wanted[b][turn'[b]]
  BY DEF NoFalseRelease, Asks
<1>0. ASSUME Holds(Asks(b)), turn'[b] = turn[b]
      PROVE  \E s \in Setters :
                 setter'[s] = "done" /\ sets[s] = wanted[b][turn'[b]]
  <2>1. PICK s \in Setters : setter[s] = "done" /\ sets[s] = Asks(b)
    BY <1>0 DEF Holds
  <2>2. setter'[s] = "done"
    BY <2>1, DoneStays
  <2> QED  BY <1>0, <2>1, <2>2 DEF Asks
<1>1. CASE blocker[b] = "released" /\ turn'[b] = turn[b]
  <2>1. Holds(Asks(b))
    BY <1>1 DEF NoFalseRelease, Holds
  <2> QED  BY <1>0, <1>1, <2>1
<1>2. ASSUME NEW s \in Setters,
             Set(s) \/ SetStep(s) \/ ServerStep(s) \/ Quit(s)
      PROVE  UNCHANGED <<blocker, turn>>
  BY <1>2 DEF Set, SetStep, SetConnects, SetForks, SetFinds, SetFails,
              ServerStep, Starts, BindLocal, ListenLocal, BindRemote,
              HandleRemote, HandleLocal, Quit, Ends, CloseSockets, Unlink
<1>3. ASSUME NEW c \in Blockers, Receives(c)
      PROVE  \E s \in Setters :
                 setter'[s] = "done" /\ sets[s] = wanted[b][turn'[b]]
  <2>1. CASE /\ HangUp(c) /\ UNCHANGED turn
             /\ blocker' = [blocker EXCEPT ![c] = "released"]
             /\ Asks(c) \in States /\ Occurs(Asks(c), inbox[c])
    <3>1. CASE b = c
      <4>1. Holds(Asks(b)) /\ turn'[b] = turn[b]
        BY <2>1, <3>1 DEF AnswersHold
      <4> QED  BY <1>0, <4>1
    <3>2. CASE b # c
      BY <1>1, <2>1, <3>2 DEF TypeOK
    <3> QED  BY <3>1, <3>2
  <2>2. CASE UNCHANGED <<blocker, turn>>
    BY <1>1, <2>2
  <2> QED  BY <1>3, <2>1, <2>2, ReceivesEffect
<1>4. ASSUME NEW c \in Blockers,
             \/ Connects(c) \/ ConnectFails(c) \/ SendsState(c) \/ GivesUp(c)
             \/ Killed(c)
      PROVE  blocker[b] = "released" /\ turn'[b] = turn[b]
  BY <1>4 DEF TypeOK, Connects, ConnectFails, SendsState, GivesUp, Fails,
              Killed, Goes, NextTurn
<1> QED  BY <1>1, <1>2, <1>3, <1>4 DEF Next, BlockStep

LEMMA TruthStep == TypeOK /\ Truth /\ [Next]_vars => Truth'
BY SetsAreDoneStep, EventsHoldStep, AnswersHoldStep, ReleaseStep DEF Truth

-----------------------------------------------------------------------------
(* No client waits for a state its server has: a request looks at the      *)
(* events before it is listed, a set takes out all that match.             *)
LEMMA ParkedStep ==
  ASSUME TypeOK, NeverParked, [Next]_vars
  PROVE  NeverParked'
<1> SUFFICES ASSUME NEW s \in Setters, NEW c \in wlist'[s]
             PROVE  c.event \notin events'[s]
  BY DEF NeverParked
<1>1. CASE UNCHANGED <<events, wlist>>
  BY <1>1 DEF NeverParked
<1>2. ASSUME NEW t \in Setters, HandleRemote(t)
      PROVE  c.event \notin events'[s]
  <2> DEFINE r == rqueue[t][1]
  <2>1. /\ wlist'[t] = Swept(wlist[t])
                           \cup (IF r.event \in events[t] THEN {} ELSE {r})
        /\ s # t => wlist'[s] = wlist[s]
        /\ UNCHANGED events
    BY <1>2, RemoteEffect
  <2> HIDE DEF r
  <2>2. CASE s = t /\ c \in Swept(wlist[s])
    <3>1. wlist[s] \in SUBSET Connection
      BY DEF TypeOK
    <3>2. PICK d \in wlist[s] : c.event = d.event
      BY <2>2, <3>1, SweptConnections
    <3> QED  BY <2>1, <3>2 DEF NeverParked
  <2> QED  BY <2>1, <2>2 DEF NeverParked
<1>3. ASSUME NEW t \in Setters, HandleLocal(t)
      PROVE  c.event \notin events'[s]
  <2> DEFINE e == sets[lqueue[t][1]]
  <2>1. /\ events' = [events EXCEPT ![t] = @ \cup {e}]
        /\ wlist' = [wlist EXCEPT ![t] = {d \in @ : d.event # e}]
    BY <1>3, LocalEffect
  <2> HIDE DEF e
  <2> QED  BY <2>1 DEF NeverParked, TypeOK
<1>4. ASSUME NEW t \in Setters, Quit(t)
      PROVE  c.event \notin events'[s]
  <2>1. /\ events' = [events EXCEPT ![t] = {}]
        /\ wlist' = [wlist EXCEPT ![t] = {}]
    BY <1>4, QuitEffect
  <2> QED  BY <2>1 DEF NeverParked, TypeOK
<1>5. ASSUME NEW b \in Blockers, HangUp(b)
      PROVE  c.event \notin events'[s]
  <2>1. PICK d \in wlist[s] : c.event = d.event
    BY <1>5, HangUpEffect
  <2>2. UNCHANGED events
    BY <1>5, HangUpEffect
  <2> QED  BY <2>1, <2>2 DEF NeverParked
<1>6. ASSUME NEW b \in Blockers, Receives(b)
      PROVE  c.event \notin events'[s]
  <2>1. HangUp(b) \/ UNCHANGED <<events, wlist>>
    BY <1>6, ReceivesEffect
  <2> QED  BY <1>1, <1>5, <2>1
<1>7. ASSUME NEW t \in Setters,
             Set(t) \/ SetStep(t) \/ Starts(t) \/ Ends(t)
      PROVE  UNCHANGED <<events, wlist>>
  BY <1>7 DEF Set, SetStep, SetConnects, SetForks, SetFinds, SetFails, Starts,
              BindLocal, ListenLocal, BindRemote, Ends, CloseSockets, Unlink
<1>8. ASSUME NEW b \in Blockers,
             Connects(b) \/ ConnectFails(b) \/ SendsState(b)
      PROVE  UNCHANGED <<events, wlist>>
  BY <1>8 DEF Connects, ConnectFails, SendsState
<1> QED  BY <1>1, <1>2, <1>3, <1>4, <1>5, <1>6, <1>7, <1>8
            DEF Next, ServerStep, BlockStep, GivesUp, Fails, Killed

-----------------------------------------------------------------------------
(* No client is forgotten.  A PING is not enough to have in one's inbox:   *)
(* what is owed to a client that waits is the end of its connection.  And  *)
(* a server is forked once, so that one that runs ends by being told to.   *)
Forked == \A s \in Setters : setter[s] = "idle" => server[s] = "none"

Listed(b) ==
    \E s \in Setters : \E c \in wlist[s] :
        server[s] = "run" /\ c.from = b /\ c.peer = "open"

Waits(b) ==
    \E s \in Setters : \E i \in 1 .. Len(rqueue[s]) :
        rqueue[s][i].from = b /\ rqueue[s][i].peer = "open"

Known(b) == Waits(b) \/ Occurs("EOF", inbox[b]) \/ Listed(b)

Remembered ==
    \A b \in Blockers : blocker[b] \in {"connected", "sent"} => Known(b)

LEMMA ForkedStep ==
  ASSUME TypeOK, Forked, [Next]_vars
  PROVE  Forked'
<1>1. ASSUME NEW t \in Setters, Set(t) \/ SetStep(t)
      PROVE  Forked'
  BY <1>1 DEF TypeOK, Forked, Set, SetStep, SetConnects, SetForks, SetFinds,
              SetFails, Move
<1>2. ASSUME NEW t \in Setters, ServerStep(t) \/ Quit(t)
      PROVE  Forked'
  <2>1. CASE HandleRemote(t) \/ HandleLocal(t)
    BY <2>1 DEF Forked, HandleRemote, HandleLocal
  <2>2. CASE Starts(t) \/ Ends(t) \/ Quit(t)
    BY <2>2 DEF TypeOK, Forked, Starts, BindLocal, ListenLocal, BindRemote,
                Ends, CloseSockets, Unlink, Quit, Serve
  <2> QED  BY <1>2, <2>1, <2>2 DEF ServerStep
<1>3. ASSUME NEW b \in Blockers, BlockStep(b) \/ Killed(b)
      PROVE  UNCHANGED <<setter, server>>
  BY <1>3 DEF BlockStep, Connects, ConnectFails, SendsState, Receives, GivesUp,
              Fails, Killed, HangUp
<1>4. CASE UNCHANGED <<setter, server>>
  BY <1>4 DEF Forked
<1> QED  BY <1>1, <1>2, <1>3, <1>4 DEF Next

(* A step that leaves the connections and what the clients know alone, and *)
(* no running server.                                                      *)
LEMMA KeepsKnowing ==
  ASSUME Remembered, UNCHANGED <<rqueue, wlist, blocker, inbox>>,
         \A s \in Setters : server[s] = "run" => server'[s] = "run"
  PROVE  Remembered'
BY DEF Remembered, Known, Waits, Listed, Occurs

LEMMA SetRemembers ==
  ASSUME TypeOK, Forked, Remembered, NEW s \in Setters, Set(s) \/ SetStep(s)
  PROVE  Remembered'
<1>1. UNCHANGED <<rqueue, wlist, blocker, inbox>>
  BY DEF Set, SetStep, SetConnects, SetForks, SetFinds, SetFails
<1>2. ASSUME NEW t \in Setters, server[t] = "run" PROVE server'[t] = "run"
  <2>1. CASE SetForks(s)
    BY <1>2, <2>1 DEF TypeOK, Forked, SetForks, Move
  <2>2. CASE UNCHANGED server
    BY <1>2, <2>2
  <2> QED  BY <2>1, <2>2 DEF Set, SetStep, SetConnects, SetFinds, SetFails
<1> QED  BY <1>1, <1>2, KeepsKnowing

LEMMA StartRemembers ==
  ASSUME TypeOK, Remembered, NEW s \in Setters, Starts(s) \/ Unlink(s)
  PROVE  Remembered'
<1>1. UNCHANGED <<rqueue, wlist, blocker, inbox>>
  BY DEF Starts, BindLocal, ListenLocal, BindRemote, Unlink
<1>2. \A t \in Setters : server[t] = "run" => server'[t] = "run"
  BY DEF TypeOK, Starts, BindLocal, ListenLocal, BindRemote, Unlink, Serve
<1> QED  BY <1>1, <1>2, KeepsKnowing

LEMMA RemoteRemembers ==
  ASSUME TypeOK, Remembered, NEW s \in Setters, HandleRemote(s)
  PROVE  Remembered'
<1> DEFINE r == rqueue[s][1]
<1>1. /\ server[s] = "run" /\ Len(rqueue[s]) \in Nat \ {0}
      /\ Len(rqueue'[s]) = Len(rqueue[s]) - 1
      /\ \A i \in 1 .. Len(rqueue'[s]) : rqueue'[s][i] = rqueue[s][i + 1]
      /\ \A t \in Setters : t # s => /\ rqueue'[t] = rqueue[t]
                                     /\ wlist'[t] = wlist[t]
      /\ wlist'[s] = Swept(wlist[s])
                         \cup (IF r.event \in events[s] THEN {} ELSE {r})
      /\ \A b \in Blockers :
             Occurs("EOF", inbox[b]) => Occurs("EOF", inbox'[b])
      /\ r.event \in events[s] /\ r.peer = "open"
             => Occurs("EOF", inbox'[r.from])
      /\ UNCHANGED <<server, blocker>>
  BY RemoteEffect
<1> HIDE DEF r
<1> SUFFICES ASSUME NEW b \in Blockers, Known(b) PROVE Known(b)'
  BY <1>1 DEF Remembered
<1>2. CASE Occurs("EOF", inbox[b])
  BY <1>1, <1>2 DEF Known, Occurs
<1>3. CASE Listed(b)
  <2>0. PICK t \in Setters : \E c \in wlist[t] :
            server[t] = "run" /\ c.from = b /\ c.peer = "open"
    BY <1>3 DEF Listed
  <2>1. PICK c \in wlist[t] :
            server[t] = "run" /\ c.from = b /\ c.peer = "open"
    BY <2>0
  <2>2. wlist[s] \in SUBSET Connection
    BY DEF TypeOK
  <2>3. c \in wlist'[t]
    BY <1>1, <2>1, <2>2, SweptConnections
  <2> QED  BY <1>1, <2>1, <2>3 DEF Known, Listed
<1>4. CASE Waits(b)
  <2>0. PICK t \in Setters : \E i \in 1 .. Len(rqueue[t]) :
            rqueue[t][i].from = b /\ rqueue[t][i].peer = "open"
    BY <1>4 DEF Waits
  <2>1. PICK i \in 1 .. Len(rqueue[t]) :
            rqueue[t][i].from = b /\ rqueue[t][i].peer = "open"
    BY <2>0
  <2>2. CASE t # s
    BY <1>1, <2>1, <2>2 DEF Known, Waits
  <2>3. CASE t = s /\ i = 1
    <3>1. r.from = b /\ r.peer = "open"
      BY <2>1, <2>3 DEF r
    <3>2. CASE r.event \in events[s]
      BY <1>1, <3>1, <3>2 DEF Known, Occurs
    <3>3. CASE r.event \notin events[s]
      <4>1. r \in wlist'[s]
        BY <1>1, <3>3
      <4> QED  BY <1>1, <3>1, <4>1 DEF Known, Listed
    <3> QED  BY <3>2, <3>3
  <2>4. CASE t = s /\ i # 1
    <3>1. i - 1 \in 1 .. Len(rqueue'[s]) /\ i = (i - 1) + 1
      BY <1>1, <2>4
    <3>2. rqueue'[s][i - 1] = rqueue[s][i]
      BY <1>1, <3>1
    <3> QED  BY <2>1, <2>4, <3>1, <3>2 DEF Known, Waits
  <2> QED  BY <2>2, <2>3, <2>4
<1> QED  BY <1>2, <1>3, <1>4 DEF Known

LEMMA LocalRemembers ==
  ASSUME TypeOK, Remembered, NEW s \in Setters, HandleLocal(s)
  PROVE  Remembered'
<1> DEFINE e == sets[lqueue[s][1]]
<1>1. /\ wlist' = [wlist EXCEPT ![s] = {c \in @ : c.event # e}]
      /\ \A b \in Blockers :
             Occurs("EOF", inbox[b]) => Occurs("EOF", inbox'[b])
      /\ \A c \in wlist[s] : c.event = e /\ c.peer = "open"
             => Occurs("EOF", inbox'[c.from])
      /\ UNCHANGED <<server, rqueue, blocker>>
  BY LocalEffect
<1> HIDE DEF e
<1> SUFFICES ASSUME NEW b \in Blockers, Known(b) PROVE Known(b)'
  BY <1>1 DEF Remembered
<1>2. CASE Occurs("EOF", inbox[b])
  BY <1>1, <1>2 DEF Known, Occurs
<1>3. CASE Waits(b)
  BY <1>1, <1>3 DEF Known, Waits
<1>4. CASE Listed(b)
  <2>0. PICK t \in Setters : \E c \in wlist[t] :
            server[t] = "run" /\ c.from = b /\ c.peer = "open"
    BY <1>4 DEF Listed
  <2>1. PICK c \in wlist[t] :
            server[t] = "run" /\ c.from = b /\ c.peer = "open"
    BY <2>0
  <2>2. CASE t = s /\ c.event = e
    BY <1>1, <2>1, <2>2 DEF Known, Occurs
  <2>3. CASE ~(t = s /\ c.event = e)
    <3>1. c \in wlist'[t]
      BY <1>1, <2>1, <2>3 DEF TypeOK
    <3> QED  BY <1>1, <2>1, <3>1 DEF Known, Listed
  <2> QED  BY <2>2, <2>3
<1> QED  BY <1>2, <1>3, <1>4 DEF Known

LEMMA QuitRemembers ==
  ASSUME TypeOK, Remembered, NEW s \in Setters, Quit(s)
  PROVE  Remembered'
<1>1. /\ server' = [server EXCEPT ![s] = "close"]
      /\ wlist' = [wlist EXCEPT ![s] = {}]
      /\ \A b \in Blockers :
             Occurs("EOF", inbox[b]) => Occurs("EOF", inbox'[b])
      /\ \A b \in Blockers :
             (\E c \in wlist[s] : c.from = b /\ c.peer = "open")
                 => Occurs("EOF", inbox'[b])
      /\ UNCHANGED <<rqueue, blocker>>
  BY QuitEffect
<1> SUFFICES ASSUME NEW b \in Blockers, Known(b) PROVE Known(b)'
  BY <1>1 DEF Remembered
<1>2. CASE Occurs("EOF", inbox[b])
  BY <1>1, <1>2 DEF Known, Occurs
<1>3. CASE Waits(b)
  BY <1>1, <1>3 DEF Known, Waits
<1>4. CASE Listed(b)
  <2>0. PICK t \in Setters : \E c \in wlist[t] :
            server[t] = "run" /\ c.from = b /\ c.peer = "open"
    BY <1>4 DEF Listed
  <2>1. PICK c \in wlist[t] :
            server[t] = "run" /\ c.from = b /\ c.peer = "open"
    BY <2>0
  <2>2. CASE t = s
    BY <1>1, <2>1, <2>2 DEF Known, Occurs
  <2>3. CASE t # s
    <3>1. c \in wlist'[t] /\ server'[t] = "run"
      BY <1>1, <2>1, <2>3 DEF TypeOK
    <3> QED  BY <2>1, <3>1 DEF Known, Listed
  <2> QED  BY <2>2, <2>3
<1> QED  BY <1>2, <1>3, <1>4 DEF Known

LEMMA CloseRemembers ==
  ASSUME TypeOK, Remembered, NEW s \in Setters, CloseSockets(s)
  PROVE  Remembered'
<1>1. /\ server[s] = "close" /\ server' = [server EXCEPT ![s] = "unlink"]
      /\ rqueue' = [rqueue EXCEPT ![s] = <<>>]
      /\ \A b \in Blockers :
             Occurs("EOF", inbox[b]) => Occurs("EOF", inbox'[b])
      /\ \A b \in Blockers : \A i \in 1 .. Len(rqueue[s]) :
             rqueue[s][i].from = b /\ rqueue[s][i].peer = "open"
                 => Occurs("EOF", inbox'[b])
      /\ UNCHANGED <<wlist, blocker>>
  BY CloseEffect
<1> SUFFICES ASSUME NEW b \in Blockers, Known(b) PROVE Known(b)'
  BY <1>1 DEF Remembered
<1>2. CASE Occurs("EOF", inbox[b])
  BY <1>1, <1>2 DEF Known, Occurs
<1>3. CASE Waits(b)
  <2>0. PICK t \in Setters : \E i \in 1 .. Len(rqueue[t]) :
            rqueue[t][i].from = b /\ rqueue[t][i].peer = "open"
    BY <1>3 DEF Waits
  <2>1. PICK i \in 1 .. Len(rqueue[t]) :
            rqueue[t][i].from = b /\ rqueue[t][i].peer = "open"
    BY <2>0
  <2>2. CASE t = s
    BY <1>1, <2>1, <2>2 DEF Known, Occurs
  <2>3. CASE t # s
    <3>1. rqueue'[t] = rqueue[t]
      BY <1>1, <2>3 DEF TypeOK
    <3> QED  BY <2>1, <3>1 DEF Known, Waits
  <2> QED  BY <2>2, <2>3
<1>4. CASE Listed(b)
  <2>0. PICK t \in Setters : \E c \in wlist[t] :
            server[t] = "run" /\ c.from = b /\ c.peer = "open"
    BY <1>4 DEF Listed
  <2>1. PICK c \in wlist[t] :
            server[t] = "run" /\ c.from = b /\ c.peer = "open"
    BY <2>0
  <2>2. server'[t] = "run" /\ c \in wlist'[t]
    BY <1>1, <2>1 DEF TypeOK
  <2> QED  BY <2>1, <2>2 DEF Known, Listed
<1> QED  BY <1>2, <1>3, <1>4 DEF Known

(* A client that closes its connection takes nothing from the others.      *)
LEMMA HangUpRemembers ==
  ASSUME TypeOK, Remembered, NEW b \in Blockers, HangUp(b),
         \E to \in {"next", "released", "killed"} :
             blocker' = [blocker EXCEPT ![b] = to]
  PROVE  Remembered'
<1> SUFFICES ASSUME NEW c \in Blockers, blocker'[c] \in {"connected", "sent"}
             PROVE  Known(c)'
  BY DEF Remembered
<1>1. c # b /\ blocker[c] \in {"connected", "sent"}
  BY DEF TypeOK
<1>2. CASE Occurs("EOF", inbox[c])
  <2>1. inbox'[c] = inbox[c]
    BY <1>1, HangUpEffect DEF TypeOK
  <2> QED  BY <1>2, <2>1 DEF Known, Occurs
<1>3. CASE Waits(c)
  <2>0. PICK t \in Setters : \E i \in 1 .. Len(rqueue[t]) :
            rqueue[t][i].from = c /\ rqueue[t][i].peer = "open"
    BY <1>3 DEF Waits
  <2>1. PICK i \in 1 .. Len(rqueue[t]) :
            rqueue[t][i].from = c /\ rqueue[t][i].peer = "open"
    BY <2>0
  <2>2. /\ Len(rqueue'[t]) = Len(rqueue[t])
        /\ rqueue'[t][i].from = c /\ rqueue'[t][i].peer = "open"
    BY <1>1, <2>1, HangUpEffect
  <2> QED  BY <2>2 DEF Known, Waits
<1>4. CASE Listed(c)
  <2>0. PICK t \in Setters : \E d \in wlist[t] :
            server[t] = "run" /\ d.from = c /\ d.peer = "open"
    BY <1>4 DEF Listed
  <2>1. PICK d \in wlist[t] :
            server[t] = "run" /\ d.from = c /\ d.peer = "open"
    BY <2>0
  <2>2. d \in wlist'[t] /\ server'[t] = "run"
    BY <1>1, <2>1, HangUpEffect
  <2> QED  BY <2>1, <2>2 DEF Known, Listed
<1> QED  BY <1>1, <1>2, <1>3, <1>4 DEF Remembered, Known

LEMMA BlockRemembers ==
  ASSUME TypeOK, Remembered, NEW b \in Blockers, BlockStep(b) \/ Killed(b)
  PROVE  Remembered'
<1>1. CASE Connects(b)
  <2>1. /\ port \in Setters /\ Len(rqueue[port]) \in Nat
        /\ blocker' = [blocker EXCEPT ![b] = "connected"]
        /\ \A s \in Setters : s # port => rqueue'[s] = rqueue[s]
        /\ Len(rqueue'[port]) = Len(rqueue[port]) + 1
        /\ \A i \in 1 .. Len(rqueue[port]) :
               rqueue'[port][i] = rqueue[port][i]
        /\ rqueue'[port][Len(rqueue[port]) + 1].from = b
        /\ rqueue'[port][Len(rqueue[port]) + 1].peer = "open"
        /\ UNCHANGED <<server, wlist, inbox>>
    BY <1>1, ConnectsEffect, QueueElements
  <2>2. Waits(b)'
    <3>1. Len(rqueue[port]) + 1 \in 1 .. Len(rqueue'[port])
      BY <2>1
    <3>2. \E i \in 1 .. Len(rqueue'[port]) :
              rqueue'[port][i].from = b /\ rqueue'[port][i].peer = "open"
      BY <2>1, <3>1
    <3> QED  BY <2>1, <3>2 DEF Waits
  <2>3. ASSUME NEW c \in Blockers, Waits(c) PROVE Waits(c)'
    <3>0. PICK t \in Setters : \E i \in 1 .. Len(rqueue[t]) :
              rqueue[t][i].from = c /\ rqueue[t][i].peer = "open"
      BY <2>3 DEF Waits
    <3>1. PICK i \in 1 .. Len(rqueue[t]) :
              rqueue[t][i].from = c /\ rqueue[t][i].peer = "open"
      BY <3>0
    <3>2. i \in 1 .. Len(rqueue'[t]) /\ rqueue'[t][i] = rqueue[t][i]
      BY <2>1, <3>1
    <3> QED  BY <3>1, <3>2 DEF Waits
  <2>4. \A c \in Blockers : c # b => blocker'[c] = blocker[c]
    BY <2>1 DEF TypeOK
  <2> QED  BY <2>1, <2>2, <2>3, <2>4 DEF Remembered, Known, Listed, Occurs
<1>2. CASE ConnectFails(b)
  BY <1>2, KeepsKnowing DEF ConnectFails
<1>3. CASE SendsState(b)
  <2>1. /\ blocker[b] = "connected"
        /\ blocker' = [blocker EXCEPT ![b] = "sent"]
        /\ \A s \in Setters :
              /\ Len(rqueue'[s]) = Len(rqueue[s])
              /\ \A i \in 1 .. Len(rqueue[s]) :
                    /\ rqueue'[s][i].from = rqueue[s][i].from
                    /\ rqueue'[s][i].peer = rqueue[s][i].peer
        /\ UNCHANGED <<server, wlist, inbox>>
    BY <1>3, SendsEffect
  <2>2. \A c \in Blockers : Waits(c) => Waits(c)'
    BY <2>1 DEF Waits
  <2>3. \A c \in Blockers : blocker'[c] \in {"connected", "sent"}
                              => blocker[c] \in {"connected", "sent"}
    BY <2>1 DEF TypeOK
  <2> QED  BY <2>1, <2>2, <2>3 DEF Remembered, Known, Listed, Occurs
<1>4. CASE Receives(b)
  <2>1. CASE /\ HangUp(b) /\ blocker' = [blocker EXCEPT ![b] = "released"]
    BY <2>1, HangUpRemembers
  <2>2. CASE /\ \A c \in Blockers : c # b => inbox'[c] = inbox[c]
             /\ Occurs("EOF", inbox'[b]) <=> Occurs("EOF", inbox[b])
             /\ UNCHANGED <<server, rqueue, wlist, blocker>>
    <3>1. \A c \in Blockers :
              Occurs("EOF", inbox'[c]) <=> Occurs("EOF", inbox[c])
      BY <2>2
    <3> QED  BY <2>2, <3>1 DEF Remembered, Known, Waits, Listed, Occurs
  <2> QED  BY <1>4, <2>1, <2>2, ReceivesEffect
<1>5. CASE GivesUp(b) \/ Killed(b)
  BY <1>5, HangUpRemembers DEF GivesUp, Fails, Killed, Goes
<1> QED  BY <1>1, <1>2, <1>3, <1>4, <1>5 DEF BlockStep

LEMMA RememberedStep ==
  ASSUME TypeOK, Forked, Remembered, [Next]_vars
  PROVE  Remembered'
<1>1. ASSUME NEW s \in Setters,
             Set(s) \/ SetStep(s) \/ ServerStep(s) \/ Quit(s)
      PROVE  Remembered'
  BY <1>1, SetRemembers, StartRemembers, RemoteRemembers, LocalRemembers,
     QuitRemembers, CloseRemembers DEF ServerStep, Ends
<1>2. CASE UNCHANGED vars
  BY <1>2 DEF Remembered, Known, Waits, Listed, Occurs
<1> QED  BY <1>1, <1>2, BlockRemembers DEF Next

-----------------------------------------------------------------------------
(* Those that gave up do not pile up.  A client has one open connection at *)
(* a time, so in the queue of a server its open one is the last of its     *)
(* own, and a listed one that is open has none of its own behind it; the   *)
(* sweep leaves of the others at most one, found gone by the PING.         *)
Alive ==
    \A s \in Setters :
        /\ \A i \in 1 .. Len(rqueue[s]) : rqueue[s][i].peer = "open" =>
               blocker[rqueue[s][i].from] \in {"connected", "sent"}
        /\ \A c \in wlist[s] : c.peer = "open" =>
               blocker[c.from] \in {"connected", "sent"}

NotReset ==
    \A s \in Setters : \A i \in 1 .. Len(rqueue[s]) :
        rqueue[s][i].peer # "reset"

InTurn ==
    \A s \in Setters : \A i, j \in 1 .. Len(rqueue[s]) :
        i < j /\ rqueue[s][i].from = rqueue[s][j].from
            => rqueue[s][i].peer # "open"

ListedFirst ==
    \A s \in Setters : \A c \in wlist[s] : \A i \in 1 .. Len(rqueue[s]) :
        c.peer = "open" => rqueue[s][i].from # c.from

OneLive ==
    \A s \in Setters : \A c, d \in wlist[s] :
        c.from = d.from /\ c.peer # "reset" /\ d.peer # "reset" => c = d

OneReset ==
    \A s \in Setters : \A c, d \in wlist[s] :
        c.from = d.from /\ c.peer = "reset" /\ d.peer = "reset" => c = d

Lines == Alive /\ NotReset /\ InTurn /\ ListedFirst /\ OneLive /\ OneReset

LEMMA FromBlockers ==
  ASSUME TypeOK, NEW s \in Setters
  PROVE  /\ Len(rqueue[s]) \in Nat
         /\ \A i \in 1 .. Len(rqueue[s]) : rqueue[s][i].from \in Blockers
         /\ \A c \in wlist[s] : c.from \in Blockers
<1>1. \A c \in Connection : c.from \in Blockers
  BY DEF Connection
<1>2. wlist[s] \subseteq Connection
  BY DEF TypeOK
<1> QED  BY <1>1, <1>2, QueueElements

LEMMA KeepsLines ==
  ASSUME Lines, UNCHANGED <<rqueue, wlist, blocker>>
  PROVE  Lines'
BY DEF Lines, Alive, NotReset, InTurn, ListedFirst, OneLive, OneReset

LEMMA RemoteLines ==
  ASSUME TypeOK, Lines, NEW s \in Setters, HandleRemote(s)
  PROVE  Lines'
<1> DEFINE r == rqueue[s][1]
<1>1. /\ Len(rqueue[s]) \in Nat \ {0} /\ r \in Connection
      /\ Len(rqueue'[s]) = Len(rqueue[s]) - 1
      /\ \A i \in 1 .. Len(rqueue'[s]) : rqueue'[s][i] = rqueue[s][i + 1]
      /\ \A t \in Setters : t # s => /\ rqueue'[t] = rqueue[t]
                                     /\ wlist'[t] = wlist[t]
      /\ wlist'[s] = Swept(wlist[s])
                         \cup (IF r.event \in events[s] THEN {} ELSE {r})
      /\ UNCHANGED blocker
  BY RemoteEffect
<1>2. 1 \in 1 .. Len(rqueue[s]) /\ r.peer # "reset"
  BY <1>1 DEF Lines, NotReset
<1>3. /\ r.peer = "open" => blocker[r.from] \in {"connected", "sent"}
      /\ \A c \in wlist[s] : c.peer = "open" => r.from # c.from
      /\ \A j \in 1 .. Len(rqueue[s]) :
             j > 1 /\ r.peer = "open" => rqueue[s][j].from # r.from
  BY <1>1, <1>2 DEF Lines, Alive, ListedFirst, InTurn
<1> HIDE DEF r
<1>4. wlist[s] \in SUBSET Connection
  BY DEF TypeOK
<1>5. \A c \in Swept(wlist[s]) : \E d \in wlist[s] :
          /\ d.peer # "reset" /\ c.from = d.from
          /\ d.peer = "closed" => c = [d EXCEPT !.peer = "reset"]
          /\ d.peer = "closed" => c.peer = "reset"
          /\ d.peer = "open" => c = d
  BY <1>4, SweptConnections
<1>6. \A d \in wlist[s] : d.peer \in {"open", "closed", "reset"}
  BY <1>4 DEF Connection
<1>7. \A i \in 1 .. Len(rqueue'[s]) :
          i + 1 \in 1 .. Len(rqueue[s]) /\ i + 1 > 1
  BY <1>1
<1>8. \A c \in wlist'[s] : c \in Swept(wlist[s]) \/ c = r
  BY <1>1
<1>9. Alive'
  <2> SUFFICES ASSUME NEW t \in Setters
               PROVE  /\ \A i \in 1 .. Len(rqueue'[t]) :
                            rqueue'[t][i].peer = "open" =>
                               blocker[rqueue'[t][i].from]
                                   \in {"connected", "sent"}
                      /\ \A c \in wlist'[t] : c.peer = "open" =>
                            blocker[c.from] \in {"connected", "sent"}
    BY <1>1 DEF Alive
  <2>1. CASE t # s
    BY <1>1, <2>1 DEF Lines, Alive
  <2>2. CASE t = s
    <3>1. \A i \in 1 .. Len(rqueue'[s]) : rqueue'[s][i].peer = "open" =>
              blocker[rqueue'[s][i].from] \in {"connected", "sent"}
      BY <1>1, <1>7 DEF Lines, Alive
    <3>2. \A c \in Swept(wlist[s]) : c.peer = "open" =>
              blocker[c.from] \in {"connected", "sent"}
      BY <1>5, <1>6 DEF Lines, Alive
    <3> QED  BY <1>3, <1>8, <2>2, <3>1, <3>2
  <2> QED  BY <2>1, <2>2
<1>10. NotReset'
  <2> SUFFICES ASSUME NEW t \in Setters, NEW i \in 1 .. Len(rqueue'[t])
               PROVE  rqueue'[t][i].peer # "reset"
    BY DEF NotReset
  <2> QED  BY <1>1, <1>7 DEF Lines, NotReset
<1>11. InTurn'
  <2> SUFFICES ASSUME NEW t \in Setters, NEW i \in 1 .. Len(rqueue'[t]),
                      NEW j \in 1 .. Len(rqueue'[t]), i < j,
                      rqueue'[t][i].from = rqueue'[t][j].from
               PROVE  rqueue'[t][i].peer # "open"
    BY DEF InTurn
  <2>1. CASE t # s
    BY <1>1, <2>1 DEF Lines, InTurn
  <2>2. CASE t = s
    <3>1. /\ i + 1 \in 1 .. Len(rqueue[s]) /\ j + 1 \in 1 .. Len(rqueue[s])
          /\ i + 1 < j + 1
      BY <1>1, <2>2
    <3> QED  BY <1>1, <2>2, <3>1 DEF Lines, InTurn
  <2> QED  BY <2>1, <2>2
<1>12. ListedFirst'
  <2> SUFFICES ASSUME NEW t \in Setters, NEW c \in wlist'[t],
                      NEW i \in 1 .. Len(rqueue'[t]), c.peer = "open"
               PROVE  rqueue'[t][i].from # c.from
    BY DEF ListedFirst
  <2>1. CASE t # s
    BY <1>1, <2>1 DEF Lines, ListedFirst
  <2>2. CASE t = s
    <3>1. i + 1 \in 1 .. Len(rqueue[s]) /\ i + 1 > 1
          /\ rqueue'[s][i] = rqueue[s][i + 1]
      BY <1>1, <1>7, <2>2
    <3>2. CASE c = r
      BY <1>3, <2>2, <3>1, <3>2
    <3>3. CASE c \in Swept(wlist[s])
      BY <1>5, <1>6, <2>2, <3>1, <3>3 DEF Lines, ListedFirst
    <3> QED  BY <1>8, <2>2, <3>2, <3>3
  <2> QED  BY <2>1, <2>2
<1>13. OneLive'
  <2> SUFFICES ASSUME NEW t \in Setters, NEW c \in wlist'[t],
                      NEW d \in wlist'[t], c.from = d.from,
                      c.peer # "reset", d.peer # "reset"
               PROVE  c = d
    BY DEF OneLive
  <2>1. CASE t # s
    BY <1>1, <2>1 DEF Lines, OneLive
  <2>2. CASE t = s
    <3>1. ASSUME NEW x \in Swept(wlist[s]), x.peer # "reset"
          PROVE  x \in wlist[s] /\ x.peer = "open"
      BY <1>5, <1>6, <3>1
    <3>2. CASE c \in Swept(wlist[s]) /\ d \in Swept(wlist[s])
      BY <3>1, <3>2 DEF Lines, OneLive
    <3>3. CASE c = r /\ d \in Swept(wlist[s])
      BY <1>3, <3>1, <3>3
    <3>4. CASE c \in Swept(wlist[s]) /\ d = r
      BY <1>3, <3>1, <3>4
    <3> QED  BY <1>8, <2>2, <3>2, <3>3, <3>4
  <2> QED  BY <2>1, <2>2
<1>14. OneReset'
  <2> SUFFICES ASSUME NEW t \in Setters, NEW c \in wlist'[t],
                      NEW d \in wlist'[t], c.from = d.from,
                      c.peer = "reset", d.peer = "reset"
               PROVE  c = d
    BY DEF OneReset
  <2>1. CASE t # s
    BY <1>1, <2>1 DEF Lines, OneReset
  <2>2. CASE t = s
    <3>1. c \in Swept(wlist[s]) /\ d \in Swept(wlist[s])
      BY <1>2, <1>8, <2>2
    <3>2. PICK x \in wlist[s] : /\ x.peer = "closed" /\ c.from = x.from
                                /\ c = [x EXCEPT !.peer = "reset"]
      BY <1>5, <1>6, <3>1
    <3>3. PICK y \in wlist[s] : /\ y.peer = "closed" /\ d.from = y.from
                                /\ d = [y EXCEPT !.peer = "reset"]
      BY <1>5, <1>6, <3>1
    <3>4. x = y
      BY <3>2, <3>3 DEF Lines, OneLive
    <3> QED  BY <3>2, <3>3, <3>4
  <2> QED  BY <2>1, <2>2
<1> QED  BY <1>9, <1>10, <1>11, <1>12, <1>13, <1>14 DEF Lines

(* Steps that only take connections away.                                  *)
LEMMA FewerLines ==
  ASSUME TypeOK, Lines, UNCHANGED blocker,
         \A s \in Setters : /\ rqueue'[s] \in {rqueue[s], <<>>}
                            /\ wlist'[s] \subseteq wlist[s]
  PROVE  Lines'
<1>1. \A s \in Setters : \A i \in 1 .. Len(rqueue'[s]) :
          rqueue'[s] = rqueue[s]
  <2>1. Len(<<>>) = 0
    OBVIOUS
  <2> QED  BY <2>1
<1>2. Alive' /\ NotReset'
  BY <1>1 DEF Lines, Alive, NotReset
<1>3. InTurn' /\ ListedFirst'
  BY <1>1 DEF Lines, InTurn, ListedFirst
<1>4. OneLive' /\ OneReset'
  BY DEF Lines, OneLive, OneReset
<1> QED  BY <1>2, <1>3, <1>4 DEF Lines

LEMMA HangUpLines ==
  ASSUME TypeOK, Lines, NEW b \in Blockers, HangUp(b),
         \E to \in {"next", "released", "killed"} :
             blocker' = [blocker EXCEPT ![b] = to]
  PROVE  Lines'
<1>1. \A s \in Setters :
          /\ Len(rqueue'[s]) = Len(rqueue[s])
          /\ \A i \in 1 .. Len(rqueue[s]) :
                /\ rqueue'[s][i].from = rqueue[s][i].from
                /\ rqueue'[s][i].peer =
                      IF rqueue[s][i].from = b /\ rqueue[s][i].peer = "open"
                      THEN "closed" ELSE rqueue[s][i].peer
  BY HangUpEffect
<1>2. \A s \in Setters : \A c \in wlist'[s] : \E d \in wlist[s] :
          /\ c = Closed(b, d) /\ c.from = d.from
          /\ c.peer = IF d.from = b /\ d.peer = "open"
                      THEN "closed" ELSE d.peer
  BY HangUpEffect
<1>3. \A c \in Blockers : c # b => blocker'[c] = blocker[c]
  BY DEF TypeOK
<1>4. \A s \in Setters :
          /\ \A i \in 1 .. Len(rqueue[s]) : rqueue[s][i].from \in Blockers
          /\ \A c \in wlist[s] : c.from \in Blockers
  BY FromBlockers
<1>5. Alive'
  <2>1. ASSUME NEW s \in Setters, NEW i \in 1 .. Len(rqueue'[s]),
               rqueue'[s][i].peer = "open"
        PROVE  blocker'[rqueue'[s][i].from] \in {"connected", "sent"}
    BY <1>1, <1>3, <1>4, <2>1 DEF Lines, Alive
  <2>2. ASSUME NEW s \in Setters, NEW c \in wlist'[s], c.peer = "open"
        PROVE  blocker'[c.from] \in {"connected", "sent"}
    BY <1>2, <1>3, <1>4, <2>2 DEF Lines, Alive
  <2> QED  BY <2>1, <2>2 DEF Alive
<1>6. NotReset'
  BY <1>1 DEF Lines, NotReset
<1>7. InTurn'
  BY <1>1 DEF Lines, InTurn
<1>8. ListedFirst'
  <2> SUFFICES ASSUME NEW s \in Setters, NEW c \in wlist'[s],
                      NEW i \in 1 .. Len(rqueue'[s]), c.peer = "open"
               PROVE  rqueue'[s][i].from # c.from
    BY DEF ListedFirst
  <2>1. PICK d \in wlist[s] : d.peer = "open" /\ c.from = d.from
    BY <1>2
  <2> QED  BY <1>1, <2>1 DEF Lines, ListedFirst
<1>9. OneLive' /\ OneReset'
  <2> SUFFICES ASSUME NEW s \in Setters, NEW c \in wlist'[s],
                      NEW d \in wlist'[s], c.from = d.from,
                      c.peer = "reset" <=> d.peer = "reset"
               PROVE  c = d
    BY DEF OneLive, OneReset
  <2>1. PICK x \in wlist[s] : /\ c = Closed(b, x) /\ c.from = x.from
                              /\ c.peer = "reset" <=> x.peer = "reset"
    BY <1>2
  <2>2. PICK y \in wlist[s] : /\ d = Closed(b, y) /\ d.from = y.from
                              /\ d.peer = "reset" <=> y.peer = "reset"
    BY <1>2
  <2>3. x = y
    BY <2>1, <2>2 DEF Lines, OneLive, OneReset
  <2> QED  BY <2>1, <2>2, <2>3
<1> QED  BY <1>5, <1>6, <1>7, <1>8, <1>9 DEF Lines

LEMMA ConnectsLines ==
  ASSUME TypeOK, Lines, NEW b \in Blockers, Connects(b)
  PROVE  Lines'
<1>1. /\ port \in Setters /\ Len(rqueue[port]) \in Nat
      /\ blocker[b] = "next"
      /\ blocker' = [blocker EXCEPT ![b] = "connected"]
      /\ \A s \in Setters : s # port => rqueue'[s] = rqueue[s]
      /\ Len(rqueue'[port]) = Len(rqueue[port]) + 1
      /\ \A i \in 1 .. Len(rqueue[port]) : rqueue'[port][i] = rqueue[port][i]
      /\ rqueue'[port][Len(rqueue[port]) + 1].from = b
      /\ rqueue'[port][Len(rqueue[port]) + 1].peer = "open"
      /\ UNCHANGED wlist
  BY ConnectsEffect, QueueElements
<1>2. blocker'[b] = "connected"
      /\ \A c \in Blockers : c # b => blocker'[c] = blocker[c]
  BY <1>1 DEF TypeOK
<1>3. \A s \in Setters :
          /\ Len(rqueue[s]) \in Nat
          /\ \A i \in 1 .. Len(rqueue[s]) : rqueue[s][i].from \in Blockers
          /\ \A c \in wlist[s] : c.from \in Blockers
  BY FromBlockers
<1>4. ASSUME NEW s \in Setters, NEW i \in 1 .. Len(rqueue'[s])
      PROVE  \/ i \in 1 .. Len(rqueue[s]) /\ rqueue'[s][i] = rqueue[s][i]
             \/ /\ s = port /\ i = Len(rqueue[s]) + 1
                /\ rqueue'[s][i].from = b /\ rqueue'[s][i].peer = "open"
  <2>1. CASE s # port
    BY <1>1, <2>1
  <2>2. CASE s = port /\ i = Len(rqueue[port]) + 1
    BY <1>1, <2>2
  <2>3. CASE s = port /\ i # Len(rqueue[port]) + 1
    <3>1. i \in 1 .. Len(rqueue[port])
      BY <1>1, <2>3
    <3> QED  BY <1>1, <2>3, <3>1
  <2> QED  BY <2>1, <2>2, <2>3
<1>5. \A s \in Setters :
          /\ \A i \in 1 .. Len(rqueue[s]) :
                 rqueue[s][i].from = b => rqueue[s][i].peer # "open"
          /\ \A c \in wlist[s] : c.from = b => c.peer # "open"
  BY <1>1 DEF Lines, Alive
<1>6. Alive'
  <2>1. ASSUME NEW s \in Setters, NEW i \in 1 .. Len(rqueue'[s]),
               rqueue'[s][i].peer = "open"
        PROVE  blocker'[rqueue'[s][i].from] \in {"connected", "sent"}
    BY <1>2, <1>3, <1>4, <2>1 DEF Lines, Alive
  <2>2. ASSUME NEW s \in Setters, NEW c \in wlist'[s], c.peer = "open"
        PROVE  blocker'[c.from] \in {"connected", "sent"}
    BY <1>1, <1>2, <1>3, <2>2 DEF Lines, Alive
  <2> QED  BY <2>1, <2>2 DEF Alive
<1>7. NotReset'
  BY <1>4 DEF Lines, NotReset
<1>8. InTurn'
  <2> SUFFICES ASSUME NEW s \in Setters, NEW i \in 1 .. Len(rqueue'[s]),
                      NEW j \in 1 .. Len(rqueue'[s]), i < j,
                      rqueue'[s][i].from = rqueue'[s][j].from
               PROVE  rqueue'[s][i].peer # "open"
    BY DEF InTurn
  <2>1. i \in 1 .. Len(rqueue[s]) /\ rqueue'[s][i] = rqueue[s][i]
    <3>1. Len(rqueue'[s]) <= Len(rqueue[s]) + 1 /\ Len(rqueue[s]) \in Nat
      BY <1>1, <1>3
    <3>2. Len(rqueue'[s]) \in Nat
      BY <1>1, <1>3
    <3>3. i # Len(rqueue[s]) + 1
      BY <3>1, <3>2
    <3> QED  BY <1>4, <3>3
  <2>2. CASE j \in 1 .. Len(rqueue[s]) /\ rqueue'[s][j] = rqueue[s][j]
    BY <2>1, <2>2 DEF Lines, InTurn
  <2>3. CASE rqueue'[s][j].from = b
    BY <1>5, <2>1, <2>3
  <2> QED  BY <1>4, <2>2, <2>3
<1>9. ListedFirst'
  <2> SUFFICES ASSUME NEW s \in Setters, NEW c \in wlist[s],
                      NEW i \in 1 .. Len(rqueue'[s]), c.peer = "open"
               PROVE  rqueue'[s][i].from # c.from
    BY <1>1 DEF ListedFirst
  <2> QED  BY <1>4, <1>5 DEF Lines, ListedFirst
<1>10. OneLive' /\ OneReset'
  BY <1>1 DEF Lines, OneLive, OneReset
<1> QED  BY <1>6, <1>7, <1>8, <1>9, <1>10 DEF Lines

LEMMA SendsLines ==
  ASSUME TypeOK, Lines, NEW b \in Blockers, SendsState(b)
  PROVE  Lines'
<1>1. /\ blocker[b] = "connected" /\ blocker' = [blocker EXCEPT ![b] = "sent"]
      /\ \A s \in Setters :
            /\ Len(rqueue'[s]) = Len(rqueue[s])
            /\ \A i \in 1 .. Len(rqueue[s]) :
                  /\ rqueue'[s][i].from = rqueue[s][i].from
                  /\ rqueue'[s][i].peer = rqueue[s][i].peer
      /\ UNCHANGED wlist
  BY SendsEffect
<1>2. \A c \in Blockers : blocker[c] \in {"connected", "sent"}
                          => blocker'[c] \in {"connected", "sent"}
  BY <1>1 DEF TypeOK
<1>3. \A s \in Setters :
          /\ \A i \in 1 .. Len(rqueue[s]) : rqueue[s][i].from \in Blockers
          /\ \A c \in wlist[s] : c.from \in Blockers
  BY FromBlockers
<1>4. Alive'
  <2>1. ASSUME NEW s \in Setters, NEW i \in 1 .. Len(rqueue'[s]),
               rqueue'[s][i].peer = "open"
        PROVE  blocker'[rqueue'[s][i].from] \in {"connected", "sent"}
    BY <1>1, <1>2, <1>3, <2>1 DEF Lines, Alive
  <2>2. ASSUME NEW s \in Setters, NEW c \in wlist'[s], c.peer = "open"
        PROVE  blocker'[c.from] \in {"connected", "sent"}
    BY <1>1, <1>2, <1>3, <2>2 DEF Lines, Alive
  <2> QED  BY <2>1, <2>2 DEF Alive
<1>5. NotReset' /\ InTurn'
  BY <1>1 DEF Lines, NotReset, InTurn
<1>6. ListedFirst' /\ OneLive' /\ OneReset'
  BY <1>1 DEF Lines, ListedFirst, OneLive, OneReset
<1> QED  BY <1>4, <1>5, <1>6 DEF Lines

LEMMA LinesStep ==
  ASSUME TypeOK, Lines, [Next]_vars
  PROVE  Lines'
<1>1. ASSUME NEW s \in Setters,
             HandleLocal(s) \/ Quit(s) \/ CloseSockets(s)
      PROVE  Lines'
  <2>1. UNCHANGED blocker
    BY <1>1 DEF HandleLocal, Quit, CloseSockets
  <2>2. CASE HandleLocal(s)
    <3> DEFINE e == sets[lqueue[s][1]]
    <3>1. /\ wlist' = [wlist EXCEPT ![s] = {c \in @ : c.event # e}]
          /\ UNCHANGED rqueue
      BY <2>2, LocalEffect
    <3> HIDE DEF e
    <3> QED  BY <2>1, <3>1, FewerLines DEF TypeOK
  <2>3. CASE Quit(s)
    <3>1. wlist' = [wlist EXCEPT ![s] = {}] /\ UNCHANGED rqueue
      BY <2>3, QuitEffect
    <3> QED  BY <2>1, <3>1, FewerLines DEF TypeOK
  <2>4. CASE CloseSockets(s)
    <3>1. rqueue' = [rqueue EXCEPT ![s] = <<>>] /\ UNCHANGED wlist
      BY <2>4, CloseEffect
    <3> QED  BY <2>1, <3>1, FewerLines DEF TypeOK
  <2> QED  BY <1>1, <2>2, <2>3, <2>4
<1>2. ASSUME NEW s \in Setters,
             Set(s) \/ SetStep(s) \/ Starts(s) \/ Unlink(s)
      PROVE  Lines'
  <2>1. UNCHANGED <<rqueue, wlist, blocker>>
    BY <1>2 DEF Set, SetStep, SetConnects, SetForks, SetFinds, SetFails,
                Starts, BindLocal, ListenLocal, BindRemote, Unlink
  <2> QED  BY <2>1, KeepsLines
<1>3. ASSUME NEW b \in Blockers, BlockStep(b) \/ Killed(b)
      PROVE  Lines'
  <2>1. CASE ConnectFails(b)
    BY <2>1, KeepsLines DEF ConnectFails
  <2>2. CASE Receives(b)
    <3>1. CASE HangUp(b) /\ blocker' = [blocker EXCEPT ![b] = "released"]
      BY <3>1, HangUpLines
    <3>2. CASE UNCHANGED <<rqueue, wlist, blocker>>
      BY <3>2, KeepsLines
    <3> QED  BY <2>2, <3>1, <3>2, ReceivesEffect
  <2>3. CASE GivesUp(b) \/ Killed(b)
    BY <2>3, HangUpLines DEF GivesUp, Fails, Killed, Goes
  <2> QED  BY <1>3, <2>1, <2>2, <2>3, ConnectsLines, SendsLines DEF BlockStep
<1>4. CASE UNCHANGED vars
  BY <1>4, KeepsLines
<1> QED  BY <1>1, <1>2, <1>3, <1>4, RemoteLines DEF Next, ServerStep, Ends

LEMMA AtMostTwo ==
  ASSUME NEW S, \E x, y : S \subseteq {x, y}
  PROVE  Cardinality(S) <= 2
<1>1. PICK x, y : S \subseteq {x, y}
  OBVIOUS
<1>2. /\ IsFiniteSet({x}) /\ Cardinality({x}) = 1
      /\ {x, y} = {x} \cup {y}
  BY FS_Singleton
<1>3. IsFiniteSet({x, y}) /\ Cardinality({x, y}) \in {1, 2}
  BY <1>2, FS_AddElement
<1>4. Cardinality(S) <= Cardinality({x, y}) /\ IsFiniteSet(S)
  BY <1>1, <1>3, FS_Subset
<1>5. Cardinality(S) \in Nat
  BY <1>4, FS_CardinalityType
<1> QED  BY <1>3, <1>4, <1>5

LEMMA LinesSweep == Lines => SweepsTheGone
<1> SUFFICES ASSUME Lines, NEW s \in Setters, NEW b \in Blockers
             PROVE  Cardinality({c \in wlist[s] : c.from = b}) <= 2
  BY DEF SweepsTheGone
<1> DEFINE mine == {c \in wlist[s] : c.from = b}
           live == {c \in mine : c.peer # "reset"}
           gone == {c \in mine : c.peer = "reset"}
<1>1. \A c, d \in live : c = d
  BY DEF Lines, OneLive
<1>2. \A c, d \in gone : c = d
  BY DEF Lines, OneReset
<1>3. mine = live \cup gone
  OBVIOUS
<1> HIDE DEF mine, live, gone
<1>4. \E x : live \subseteq {x}
  BY <1>1
<1>5. \E y : gone \subseteq {y}
  BY <1>2
<1>6. PICK x : live \subseteq {x}
  BY <1>4
<1>7. PICK y : gone \subseteq {y}
  BY <1>5
<1>8. mine \subseteq {x, y}
  BY <1>3, <1>6, <1>7
<1>9. Cardinality(mine) <= 2
  BY <1>8, AtMostTwo
<1> QED  BY <1>9 DEF mine

-----------------------------------------------------------------------------
(* The inductive invariant, and the properties it implies.                 *)
IInv == TypeOK /\ Truth /\ NeverParked /\ Forked /\ Remembered /\ Lines

LEMMA InitInv == Init => IInv
<1> SUFFICES ASSUME Init PROVE IInv
  OBVIOUS
<1>1. Len(<<>>) = 0
  OBVIOUS
<1>2. Forked /\ Remembered /\ NeverParked
  BY DEF Init, Forked, Remembered, NeverParked
<1>3. Lines
  BY <1>1 DEF Init, Lines, Alive, NotReset, InTurn, ListedFirst, OneLive,
              OneReset
<1> QED  BY <1>2, <1>3, InitTyped, InitTruth DEF IInv

LEMMA StepInv == IInv /\ [Next]_vars => IInv'
BY StepTyped, TruthStep, ParkedStep, ForkedStep, RememberedStep, LinesStep
   DEF IInv

THEOREM Inductive == Spec => []IInv
<1> QED  BY InitInv, StepInv, PTL DEF Spec

(* A script returns only when the state it asked for was set by a command  *)
(* that is done (rstrnt-sync-block, handle_rconn, handle_lconn).           *)
THEOREM NoEarlyReturn == Spec => []NoFalseRelease
<1>1. IInv => NoFalseRelease
  BY DEF IInv, Truth
<1> QED  BY <1>1, Inductive, PTL

(* No server keeps a client that waits for a state it has (handle_lconn,   *)
(* handle_rconn).                                                          *)
THEOREM NobodyParked == Spec => []NeverParked
<1>1. IInv => NeverParked
  BY DEF IInv
<1> QED  BY <1>1, Inductive, PTL

(* A client that waits is known to a running server or has something to    *)
(* read, whichever way servers start, end and race for the socket.         *)
THEOREM AllRemembered == Spec => []NobodyForgotten
<1>1. ASSUME IInv PROVE NobodyForgotten
  <2>1. TypeOK /\ Remembered
    BY <1>1 DEF IInv
  <2> SUFFICES ASSUME NEW b \in Blockers, blocker[b] \in {"connected", "sent"}
               PROVE  \/ Queued(b) \/ inbox[b] # <<>> \/ Listed(b)
    BY <2>1 DEF NobodyForgotten, Listed
  <2>2. Waits(b) => Queued(b)
    BY <2>1, QueueElements DEF Waits, Queued
  <2>3. Occurs("EOF", inbox[b]) => inbox[b] # <<>>
    <3>1. Len(<<>>) = 0
      OBVIOUS
    <3> QED  BY <3>1 DEF Occurs
  <2> QED  BY <2>1, <2>2, <2>3 DEF Remembered, Known
<1>2. IInv => NobodyForgotten
  BY <1>1
<1> QED  BY <1>2, Inductive, PTL

(* A server lists at most two connections of one client: the one that is   *)
(* or was open last, and the one the last PING found gone.                 *)
THEOREM GoneAreSwept == Spec => []SweepsTheGone
<1>1. IInv => SweepsTheGone
  BY LinesSweep DEF IInv
<1> QED  BY <1>1, Inductive, PTL

=============================================================================

------------------------------ MODULE RstrntSync ------------------------------
(***************************************************************************)
(* rstrnt-sync (cmd_sync.c) on one host of a multihost recipe: the `set'   *)
(* commands of its tasks, the servers they fork, and the `block' commands  *)
(* of other hosts, driven by scripts/rstrnt-sync-block.                    *)
(*                                                                         *)
(* What they share: the path of the local socket, the TCP port, and the    *)
(* connections.  A server is named after the `set' that forked it.  The    *)
(* time of the block command (10 seconds) is a choice, taken only once the *)
(* server has looked at the request; the pause of the script is a stutter. *)
(***************************************************************************)
EXTENDS Naturals, Sequences, FiniteSets

CONSTANTS Setters, Blockers, States,
          sets,             (* the state each `set' command sets           *)
          wanted,           (* the states each script was given, in order  *)
          Abortable,        (* the blockers whose task may be aborted      *)
          None,             (* no server                                   *)
          Leftover          (* one that was killed and left its socket     *)

Requested == States \cup {""}       \* "": the client closed without sending

ASSUME SyncAssumption ==
    /\ None \notin Setters /\ Leftover \notin Setters /\ None # Leftover
    /\ "" \notin States /\ "PING" \notin States /\ "EOF" \notin States
    /\ sets \in [Setters -> States]
    /\ wanted \in [Blockers -> Seq(States) \ {<<>>}]
    /\ Abortable \subseteq Blockers

VARIABLES
    path,       (* the server whose socket USOCKET_PATH is                 *)
    port,       (* the server bound to PORT                                *)
    listening,  (* servers that listen to their local socket               *)
    server,     (* where each server is                                    *)
    lqueue,     (* its local connections not yet accepted: who is set      *)
    rqueue,     (* its remote connections not yet accepted                 *)
    events,     (* sd->events                                              *)
    wlist,      (* sd->wlist                                               *)
    setter,     (* where each `set' command is                             *)
    blocker,    (* where each script is                                    *)
    turn,       (* which of its states it asks for                         *)
    inbox       (* what its connection has to read                         *)

socketVars == <<path, port, listening, server>>
serverVars == <<lqueue, rqueue, events, wlist>>
blockVars  == <<blocker, turn, inbox>>
vars == <<socketVars, serverVars, setter, blockVars>>

Asks(b) == wanted[b][turn[b]]

(* A connection to the port: what was sent over it, and whether its client *)
(* closed it; a send to a closed one succeeds, the next one fails.         *)
Connection == [from : Blockers, event : Requested,
               peer : {"open", "closed", "reset"}]

Init ==
    /\ path \in {None, Leftover} /\ port = None /\ listening = {}
    /\ server = [s \in Setters |-> "none"]
    /\ lqueue = [s \in Setters |-> <<>>] /\ rqueue = [s \in Setters |-> <<>>]
    /\ events = [s \in Setters |-> {}] /\ wlist = [s \in Setters |-> {}]
    /\ setter = [s \in Setters |-> "idle"]
    /\ blocker = [b \in Blockers |-> "next"] /\ turn = [b \in Blockers |-> 1]
    /\ inbox = [b \in Blockers |-> <<>>]

----------------------------------------------------------------------------
(* rstrnt-sync set: connect, or fork a server and wait for its socket.     *)
Move(s, from, to) == setter[s] = from /\ setter' = [setter EXCEPT ![s] = to]

SendSet(s) == lqueue' = [lqueue EXCEPT ![path] = Append(@, s)]

SetConnects(s, from) ==
    /\ path \in listening /\ Move(s, from, "done") /\ SendSet(s)
    /\ UNCHANGED <<socketVars, rqueue, events, wlist, blockVars>>

SetForks(s) ==
    /\ path \notin listening /\ Move(s, "idle", "waiting")
    /\ server' = [server EXCEPT ![s] = "bind_local"]
    /\ UNCHANGED <<path, port, listening, serverVars, blockVars>>

(* stat sees the file, whoever's it is.                                    *)
SetFinds(s) ==
    /\ path # None /\ Move(s, "waiting", "found")
    /\ UNCHANGED <<socketVars, serverVars, blockVars>>

SetFails(s) ==
    /\ path \notin listening /\ Move(s, "found", "failed")
    /\ UNCHANGED <<socketVars, serverVars, blockVars>>

SetStep(s) == SetConnects(s, "found") \/ SetFinds(s) \/ SetFails(s)
Set(s) == SetConnects(s, "idle") \/ SetForks(s)

----------------------------------------------------------------------------
(* handler(): the server's start, main loop and end.                       *)
Serve(s, from, to) ==
    server[s] = from /\ server' = [server EXCEPT ![s] = to]

BindLocal(s) ==
    /\ \/ /\ path = None /\ path' = s /\ Serve(s, "bind_local", "listen_local")
       \/ /\ path # None /\ Serve(s, "bind_local", "unlink")
          /\ UNCHANGED path
    /\ UNCHANGED <<port, listening, serverVars, setter, blockVars>>

ListenLocal(s) ==
    /\ Serve(s, "listen_local", "bind_remote")
    /\ listening' = listening \cup {s}
    /\ UNCHANGED <<path, port, serverVars, setter, blockVars>>

(* The bind may fail though no server has the port: another program, or a  *)
(* connection of an earlier server that lingers.                           *)
BindRemote(s) ==
    /\ \/ /\ port = None /\ port' = s /\ Serve(s, "bind_remote", "run")
       \/ Serve(s, "bind_remote", "close") /\ UNCHANGED port
    /\ UNCHANGED <<path, listening, serverVars, setter, blockVars>>

(* What a client that has not closed gets to read; what is sent to one     *)
(* that has is lost, and PINGs not read yet are read as one.               *)
Sent(box, conns, msgs) ==
    [b \in Blockers |->
        IF /\ \E c \in conns : c.from = b /\ c.peer = "open"
           /\ msgs = <<"PING">> => box[b] = <<>>
        THEN box[b] \o msgs ELSE box[b]]

(* The PING: clients found gone are forgotten, those that closed since     *)
(* will be found gone by the next one.                                     *)
Swept_never(conns) ==
    {IF c.peer = "closed" THEN [c EXCEPT !.peer = "reset"] ELSE c :
        c \in conns}

Swept(conns) ==
    {IF c.peer = "closed" THEN [c EXCEPT !.peer = "reset"] ELSE c :
        c \in {d \in conns : d.peer # "reset"}}

IsSet_never(s, e) == FALSE

IsSet(s, e) == e \in events[s]

(* handle_rconn: recv waits, and with it the whole server, until the       *)
(* client has sent its state or closed.                                    *)
HandleRemote(s) ==
    /\ server[s] = "run" /\ rqueue[s] # <<>>
    /\ LET r == Head(rqueue[s])
           pinged == Sent(inbox, wlist[s], <<"PING">>)
       IN  /\ r.event # "" \/ r.peer # "open"
           /\ IF IsSet(s, r.event)
              THEN /\ wlist' = [wlist EXCEPT ![s] = Swept(@)]
                   /\ inbox' = Sent(pinged, {r}, <<r.event, "EOF">>)
              ELSE /\ wlist' = [wlist EXCEPT ![s] = Swept(@) \cup {r}]
                   /\ inbox' = pinged
    /\ rqueue' = [rqueue EXCEPT ![s] = Tail(@)]
    /\ UNCHANGED <<socketVars, lqueue, events, setter, blocker, turn>>

Woken_none(s, e) == {}

Woken(s, e) == {c \in wlist[s] : c.event = e}

Answer_noClose(conns, e) == UNCHANGED inbox

(* send and wentry_free, which closes the connection.                      *)
Answer(conns, e) == inbox' = Sent(inbox, conns, <<e, "EOF">>)

(* handle_lconn.                                                           *)
HandleLocal(s) ==
    /\ server[s] = "run" /\ lqueue[s] # <<>>
    /\ LET e == sets[Head(lqueue[s])] IN
       /\ events' = [events EXCEPT ![s] = @ \cup {e}]
       /\ wlist' = [wlist EXCEPT ![s] = @ \ Woken(s, e)]
       /\ Answer(Woken(s, e), e)
    /\ lqueue' = [lqueue EXCEPT ![s] = Tail(@)]
    /\ UNCHANGED <<socketVars, rqueue, setter, blocker, turn>>

(* SIGTERM or SIGINT: the loop is quit by an idle source of low priority,  *)
(* when no connection is pending, and the clients that wait are closed.    *)
Quit(s) ==
    /\ Serve(s, "run", "close") /\ lqueue[s] = <<>> /\ rqueue[s] = <<>>
    /\ inbox' = Sent(inbox, wlist[s], <<"EOF">>)
    /\ events' = [events EXCEPT ![s] = {}]
    /\ wlist' = [wlist EXCEPT ![s] = {}]
    /\ UNCHANGED <<path, port, listening, lqueue, rqueue, setter, blocker,
                   turn>>

(* Whatever is still in the queues of the sockets is lost.                 *)
CloseSockets(s) ==
    /\ Serve(s, "close", "unlink")
    /\ listening' = listening \ {s}
    /\ port' = IF port = s THEN None ELSE port
    /\ inbox' = Sent(inbox, {rqueue[s][i] : i \in DOMAIN rqueue[s]}, <<"EOF">>)
    /\ lqueue' = [lqueue EXCEPT ![s] = <<>>]
    /\ rqueue' = [rqueue EXCEPT ![s] = <<>>]
    /\ UNCHANGED <<path, events, wlist, setter, blocker, turn>>

Unlink(s) ==
    /\ Serve(s, "unlink", "gone") /\ path' = None
    /\ UNCHANGED <<port, listening, serverVars, setter, blockVars>>

Starts(s) == BindLocal(s) \/ ListenLocal(s) \/ BindRemote(s)
Ends(s) == CloseSockets(s) \/ Unlink(s)
ServerStep(s) == Starts(s) \/ HandleRemote(s) \/ HandleLocal(s) \/ Ends(s)

----------------------------------------------------------------------------
(* rstrnt-sync block, one state after the other, again and again.          *)
Goes(b, from, to) == blocker[b] = from /\ blocker' = [blocker EXCEPT ![b] = to]

NextTurn(b) ==
    turn' = [turn EXCEPT ![b] = IF @ < Len(wanted[b]) THEN @ + 1 ELSE 1]

(* What the server can find out of a client that closes its connection.    *)
Closed(b, c) ==
    IF c.from = b /\ c.peer = "open" THEN [c EXCEPT !.peer = "closed"] ELSE c

HangUp(b) ==
    /\ rqueue' = [s \in Setters |-> [i \in DOMAIN rqueue[s] |->
                                        Closed(b, rqueue[s][i])]]
    /\ wlist' = [s \in Setters |-> {Closed(b, c) : c \in wlist[s]}]
    /\ inbox' = [inbox EXCEPT ![b] = <<>>]
    /\ UNCHANGED <<socketVars, lqueue, events, setter>>

Connects(b) ==
    /\ Goes(b, "next", "connected") /\ port # None
    /\ rqueue' = [rqueue EXCEPT ![port] =
                    Append(@, [from |-> b, event |-> "", peer |-> "open"])]
    /\ UNCHANGED <<socketVars, lqueue, events, wlist, setter, turn, inbox>>

ConnectFails(b) ==
    /\ blocker[b] = "next" /\ port = None /\ NextTurn(b)
    /\ UNCHANGED <<socketVars, serverVars, setter, blocker, inbox>>

SendsState(b) ==
    /\ Goes(b, "connected", "sent")
    /\ rqueue' = [s \in Setters |-> [i \in DOMAIN rqueue[s] |->
                    LET c == rqueue[s][i] IN
                    IF c.from = b /\ c.peer = "open"
                    THEN [c EXCEPT !.event = Asks(b)] ELSE c]]
    /\ UNCHANGED <<socketVars, lqueue, events, wlist, setter, turn, inbox>>

Queued(b) == \E s \in Setters : \E i \in DOMAIN rqueue[s] :
                rqueue[s][i].from = b /\ rqueue[s][i].peer = "open"

Fails(b) == Goes(b, "sent", "next") /\ NextTurn(b) /\ HangUp(b)

Matches_any(b, m) == m # "EOF"

Matches(b, m) == m = Asks(b)

Ended(b) == \E i \in DOMAIN inbox[b] : inbox[b][i] = "EOF"

(* recv takes all there is into one buffer, of which only the first string *)
(* is looked at; the end of the connection is seen by a later recv.        *)
Receives(b) ==
    /\ blocker[b] = "sent" /\ inbox[b] # <<>>
    /\ LET m == Head(inbox[b]) IN
       \/ /\ Matches(b, m)
          /\ Goes(b, "sent", "released") /\ HangUp(b) /\ UNCHANGED turn
       \/ /\ ~Matches(b, m) /\ m # "EOF"
          /\ inbox' = [inbox EXCEPT
                         ![b] = IF Ended(b) THEN <<"EOF">> ELSE <<>>]
          /\ UNCHANGED <<socketVars, serverVars, setter, blocker, turn>>

(* The end of the connection, or of the time.                              *)
GivesUp(b) ==
    /\ inbox[b] = <<>> => ~Queued(b)
    /\ inbox[b] # <<>> => ~Matches(b, Head(inbox[b]))
    /\ Fails(b)

(* The task is aborted, or its watchdog expires.                           *)
Killed(b) ==
    /\ b \in Abortable
    /\ \E at \in {"connected", "sent"} : Goes(b, at, "killed")
    /\ HangUp(b) /\ UNCHANGED turn

BlockStep(b) == Connects(b) \/ ConnectFails(b) \/ SendsState(b) \/ Receives(b)
                \/ GivesUp(b)

----------------------------------------------------------------------------
Next ==
    \/ \E s \in Setters : Set(s) \/ SetStep(s) \/ ServerStep(s) \/ Quit(s)
    \/ \E b \in Blockers : BlockStep(b) \/ Killed(b)

Spec == Init /\ [][Next]_vars

(* Every process runs, a server takes its two sockets in turn, and no PING *)
(* extends the time of a client; nobody has to set a state or to stop a    *)
(* server.                                                                 *)
FairSpec ==
    /\ Spec
    /\ \A s \in Setters : /\ WF_vars(SetStep(s))
                          /\ WF_vars(Starts(s) \/ Ends(s))
                          /\ WF_vars(HandleRemote(s))
                          /\ WF_vars(HandleLocal(s))
    /\ \A b \in Blockers : WF_vars(BlockStep(b)) /\ SF_vars(GivesUp(b))

----------------------------------------------------------------------------
(* Every variable has its type (checked with NobodyForgotten).             *)
TypeOK ==
    /\ path \in Setters \cup {None, Leftover} /\ port \in Setters \cup {None}
    /\ listening \in SUBSET Setters
    /\ server \in [Setters -> {"none", "bind_local", "listen_local",
                               "bind_remote", "run", "close", "unlink", "gone"}]
    /\ lqueue \in [Setters -> Seq(Setters)]
    /\ rqueue \in [Setters -> Seq(Connection)]
    /\ events \in [Setters -> SUBSET States]
    /\ wlist \in [Setters -> SUBSET Connection]
    /\ setter \in [Setters -> {"idle", "waiting", "found", "done", "failed"}]
    /\ blocker \in [Blockers -> {"next", "connected", "sent", "released",
                                 "killed"}]
    /\ turn \in [Blockers -> Nat]
    /\ \A b \in Blockers : turn[b] \in DOMAIN wanted[b]
    /\ inbox \in [Blockers -> Seq(States \cup {"PING", "EOF"})]

(* A script returns only when the state it asked for was set, through      *)
(* whatever servers, PINGs and old connections were in between.            *)
NoFalseRelease ==
    \A b \in Blockers : blocker[b] = "released" =>
        \E s \in Setters : setter[s] = "done" /\ sets[s] = Asks(b)

(* No client is left waiting for a state that is set, whichever of the set *)
(* and the block came first.                                               *)
NeverParked ==
    \A s \in Setters : \A c \in wlist[s] : c.event \notin events[s]

(* A client that waits is one the server knows of, or has something to     *)
(* read: its connection is never dropped without being closed.             *)
NobodyForgotten ==
    /\ TypeOK
    /\ \A b \in Blockers : blocker[b] \in {"connected", "sent"} =>
           \/ Queued(b) \/ inbox[b] # <<>>
           \/ \E s \in Setters : \E c \in wlist[s] :
                  server[s] = "run" /\ c.from = b /\ c.peer = "open"

(* Clients that gave up do not pile up in the server: each new request     *)
(* sweeps those of the request before.                                     *)
SweepsTheGone ==
    \A s \in Setters : \A b \in Blockers :
        Cardinality({c \in wlist[s] : c.from = b}) <= 2

(* Once a server that runs knows a state, every script that waits for it   *)
(* returns.                                                                *)
Released ==
    \A s \in Setters : \A b \in Blockers :
        (server[s] = "run" /\ \E i \in DOMAIN wanted[b] :
                                  wanted[b][i] \in events[s])
            ~> (blocker[b] \in {"released", "killed"} \/ server[s] # "run")

=============================================================================

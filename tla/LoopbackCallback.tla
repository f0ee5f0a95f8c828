-------------------------- MODULE LoopbackCallback --------------------------
(***************************************************************************)
(* The authorization-code login, oidc.Provider.AuthCodeLogin, with its     *)
(* one-shot callback server (oidc.awaitCallback): the login's goroutine,   *)
(* the handler goroutine of every connection, the deadline, the browser    *)
(* and several logins of one machine that share the callback ports         *)
(* (--redirect fixes the port).                                            *)
(***************************************************************************)
CONSTANTS
    Flows,   \* logins
    Ports,   \* loopback ports they may bind; one if --redirect fixes it
    NoPort,  \* not bound yet
    Conns,   \* connections that may be open at the same time
    Free,    \* no login (of a port), no request (of a connection)
    Stray,   \* the state of a request that no login sent the browser for
    None     \* no answer

ASSUME CallbackAssumption ==
    /\ NoPort \notin Ports
    /\ Free \notin Flows /\ Stray \notin Flows
    /\ Ports # {}

Answers == {"code", "error"}

Requests == [port : Ports, state : Flows \cup {Stray}, answer : Answers]

ASSUME NoneAssumption == None \notin Requests

VARIABLES
    pc,        \* where AuthCodeLogin is
    listener,  \* the login that listens on each port
    redirect,  \* the port in each login's redirect URI
    net,       \* requests a browser may make, once and again
    conn,      \* active connections, with their request until its handler returns
               \* and None while only the rest of its body is awaited
    resultCh,  \* awaitCallback's channel, capacity 1
    got,       \* the result it returned
    first,     \* history: the first answer handed to the channel
    expired    \* the login's context is done

vars == <<pc, listener, redirect, net, conn, resultCh, got, first, expired>>

Control == {"start", "bound", "waiting", "stopping", "exchange", "done", "failed"}

Init ==
    /\ pc = [f \in Flows |-> "start"]
    /\ listener = [p \in Ports |-> Free]
    /\ redirect = [f \in Flows |-> NoPort]
    /\ net = {}
    /\ conn = [c \in Conns |-> Free]
    /\ resultCh = [f \in Flows |-> None]
    /\ got = [f \in Flows |-> None]
    /\ first = [f \in Flows |-> None]
    /\ expired = [f \in Flows |-> FALSE]

Goto(f, l) == pc' = [pc EXCEPT ![f] = l]

Release(f) == listener' = [p \in Ports |-> IF listener[p] = f THEN Free ELSE listener[p]]

(***************************************************************************)
(* The login                                                               *)
(***************************************************************************)

Bind(f) ==
    /\ pc[f] = "start"
    /\ \E p \in Ports : /\ listener[p] = Free
                        /\ listener' = [listener EXCEPT ![p] = f]
                        /\ redirect' = [redirect EXCEPT ![f] = p]
    /\ Goto(f, "bound")
    /\ UNCHANGED <<net, conn, resultCh, got, first, expired>>

BindFails(f) ==
    /\ pc[f] = "start"
    /\ \A p \in Ports : listener[p] # Free
    /\ Goto(f, "failed")
    /\ UNCHANGED <<listener, redirect, net, conn, resultCh, got, first, expired>>

\* Mutant of StateFails: the listener stays open on the error path.
StateFailsOpen(f) ==
    /\ pc[f] = "bound"
    /\ Goto(f, "failed")
    /\ UNCHANGED <<listener, redirect, net, conn, resultCh, got, first, expired>>

\* No state or no nonce could be generated.
StateFails(f) ==
    /\ pc[f] = "bound"
    /\ Release(f)
    /\ Goto(f, "failed")
    /\ UNCHANGED <<redirect, net, conn, resultCh, got, first, expired>>

\* The browser gets the URL, or the user does, and the server starts.
Announce(f) ==
    /\ pc[f] = "bound"
    /\ Goto(f, "waiting")
    /\ UNCHANGED <<listener, redirect, net, conn, resultCh, got, first, expired>>

\* Mutant of Receive: the server is not shut down.
ReceiveListening(f) ==
    /\ pc[f] = "waiting"
    /\ resultCh[f] # None
    /\ got' = [got EXCEPT ![f] = resultCh[f]]
    /\ resultCh' = [resultCh EXCEPT ![f] = None]
    /\ Goto(f, "stopping")
    /\ UNCHANGED <<listener, redirect, net, conn, first, expired>>

\* Shutdown stops listening at once, then waits for the active connections.
Receive(f) ==
    /\ pc[f] = "waiting"
    /\ resultCh[f] # None
    /\ got' = [got EXCEPT ![f] = resultCh[f]]
    /\ resultCh' = [resultCh EXCEPT ![f] = None]
    /\ Release(f)
    /\ Goto(f, "stopping")
    /\ UNCHANGED <<redirect, net, conn, first, expired>>

Served(f) == {c \in Conns : conn[c] # Free /\ conn[c].server = f}

ShutdownEnds(f) ==
    /\ pc[f] = "stopping"
    /\ Served(f) = {}
    /\ Goto(f, IF got[f].answer = "code" THEN "exchange" ELSE "failed")
    /\ UNCHANGED <<listener, redirect, net, conn, resultCh, got, first, expired>>

\* A result that is ready when the deadline passes may be taken or not: select
\* chooses.
TimesOut(f) ==
    /\ pc[f] = "waiting"
    /\ expired[f]
    /\ Release(f)
    /\ conn' = [c \in Conns |-> IF c \in Served(f) THEN Free ELSE conn[c]]
    /\ Goto(f, "failed")
    /\ UNCHANGED <<redirect, net, resultCh, got, first, expired>>

\* The code goes with this login's PKCE verifier, under the same deadline.
Exchange(f) ==
    /\ pc[f] = "exchange"
    /\ got[f].state = f
    /\ ~expired[f]
    /\ Goto(f, "done")
    /\ UNCHANGED <<listener, redirect, net, conn, resultCh, got, first, expired>>

ExchangeFails(f) ==
    /\ pc[f] = "exchange"
    /\ Goto(f, "failed")
    /\ UNCHANGED <<listener, redirect, net, conn, resultCh, got, first, expired>>

Expire(f) ==
    /\ pc[f] \in {"waiting", "stopping", "exchange"}
    /\ ~expired[f]
    /\ expired' = [expired EXCEPT ![f] = TRUE]
    /\ UNCHANGED <<pc, listener, redirect, net, conn, resultCh, got, first>>

(***************************************************************************)
(* The browser, and the handler of one connection                          *)
(***************************************************************************)

\* The issuer sends the browser to the redirect URI, however late.  The user may
\* go back and answer again.
Authorize(f, a) ==
    /\ pc[f] \notin {"start", "bound"}
    /\ redirect[f] # NoPort
    /\ net' = net \cup {[port |-> redirect[f], state |-> f, answer |-> a]}
    /\ UNCHANGED <<pc, listener, redirect, conn, resultCh, got, first, expired>>

StrayRequests == [port : Ports, state : {Stray}, answer : {"code"}]

\* A browser may repeat a request at any time, and send it to whoever has the port by
\* now.
Accept(c, r) ==
    /\ conn[c] = Free
    /\ listener[r.port] # Free
    /\ pc[listener[r.port]] = "waiting"
    /\ conn' = [conn EXCEPT ![c] = [server |-> listener[r.port], req |-> r]]
    /\ UNCHANGED <<pc, listener, redirect, net, resultCh, got, first, expired>>

Handling(c) == conn[c] # Free /\ conn[c].req # None

AwaitsBody(c) == conn[c] # Free /\ conn[c].req = None

\* The connection is over, unless its peer has announced a body: the server waits for
\* it before the connection becomes idle, without a ReadTimeout.
HandlerReturns(c) ==
    \E over \in {Free, [conn[c] EXCEPT !.req = None]} : conn' = [conn EXCEPT ![c] = over]

\* Mutant of Reject: the state is not compared.
RejectNothing(c) ==
    /\ Handling(c)
    /\ conn[c].req.state # conn[c].server
    /\ resultCh[conn[c].server] = None
    /\ resultCh' = [resultCh EXCEPT ![conn[c].server] = conn[c].req]
    /\ HandlerReturns(c)
    /\ UNCHANGED <<pc, listener, redirect, net, got, first, expired>>

\* The state is another one: 400, and the server listens on.
Reject(c) ==
    /\ Handling(c)
    /\ conn[c].req.state # conn[c].server
    /\ HandlerReturns(c)
    /\ UNCHANGED <<pc, listener, redirect, net, resultCh, got, first, expired>>

Answering(c, f) == Handling(c) /\ conn[c].server = f /\ conn[c].req.state = f

\* Mutant of Answer: the send waits for room in the channel.
AnswerBlocks(c) == \E f \in Flows :
    /\ Answering(c, f)
    /\ resultCh[f] = None
    /\ resultCh' = [resultCh EXCEPT ![f] = conn[c].req]
    /\ first' = [first EXCEPT ![f] = IF first[f] = None THEN conn[c].req ELSE first[f]]
    /\ HandlerReturns(c)
    /\ UNCHANGED <<pc, listener, redirect, net, got, expired>>

\* Mutant of Answer: a later answer replaces one that has not been read.
AnswerReplaces(c) == \E f \in Flows :
    /\ Answering(c, f)
    /\ resultCh' = [resultCh EXCEPT ![f] = conn[c].req]
    /\ first' = [first EXCEPT ![f] = IF first[f] = None THEN conn[c].req ELSE first[f]]
    /\ HandlerReturns(c)
    /\ UNCHANGED <<pc, listener, redirect, net, got, expired>>

\* The answer is handed over if there is room, and dropped if there is not.
Answer(c) == \E f \in Flows :
    /\ Answering(c, f)
    /\ resultCh' = [resultCh EXCEPT ![f] = IF resultCh[f] = None THEN conn[c].req
                                           ELSE resultCh[f]]
    /\ first' = [first EXCEPT ![f] = IF first[f] = None THEN conn[c].req ELSE first[f]]
    /\ HandlerReturns(c)
    /\ UNCHANGED <<pc, listener, redirect, net, got, expired>>

\* The peer sends the body it announced, or hangs up.
BodyEnds(c) ==
    /\ AwaitsBody(c)
    /\ conn' = [conn EXCEPT ![c] = Free]
    /\ UNCHANGED <<pc, listener, redirect, net, resultCh, got, first, expired>>

Login(f) == \/ Bind(f) \/ BindFails(f) \/ StateFails(f) \/ Announce(f)
            \/ Receive(f) \/ ShutdownEnds(f) \/ TimesOut(f)
            \/ Exchange(f) \/ ExchangeFails(f)

Handle(c) == Reject(c) \/ Answer(c)

Next == \/ \E f \in Flows : Login(f) \/ Expire(f) \/ \E a \in Answers : Authorize(f, a)
        \/ \E c \in Conns : \/ Handle(c) \/ BodyEnds(c)
                           \/ \E r \in net \cup StrayRequests : Accept(c, r)

Spec == Init /\ [][Next]_vars

\* Goroutines run, and time passes; no browser has to answer, and no peer has to send
\* the body it announced: there is no fairness on Authorize, Accept and BodyEnds.
FairSpec ==
    /\ Spec
    /\ \A f \in Flows : WF_vars(Login(f)) /\ WF_vars(Expire(f))
    /\ \A c \in Conns : WF_vars(Handle(c))

(***************************************************************************)
(* Properties                                                              *)
(***************************************************************************)

Connections == [server : Flows, req : Requests \cup {None}]

TypeOK ==
    /\ pc \in [Flows -> Control]
    /\ listener \in [Ports -> Flows \cup {Free}]
    /\ redirect \in [Flows -> Ports \cup {NoPort}]
    /\ net \subseteq Requests
    /\ conn \in [Conns -> Connections \cup {Free}]
    /\ resultCh \in [Flows -> Requests \cup {None}]
    /\ got \in [Flows -> Requests \cup {None}]
    /\ first \in [Flows -> Requests \cup {None}]
    /\ expired \in [Flows -> BOOLEAN]

\* A login goes on with the answer to its own authorization request only: a
\* redirect of another login that had the port, or a stray request, does not end
\* the wait (awaitCallback: "does not end the flow").
AnswerIsForThisLogin ==
    \A f \in Flows : got[f] # None => got[f].state = f

\* Of several answers to one login (a reload, a denial and then a consent) the
\* first one handed over decides, whatever else arrives before the server is
\* down (awaitCallback's buffered channel and its select with a default).
FirstAnswerDecides ==
    \A f \in Flows : got[f] # None => got[f] = first[f]

\* A login fails to bind its port only while another login is waiting on it:
\* every way out of a login, errors and the deadline included, gives it back
\* before anything else is done (AuthCodeLogin, awaitCallback).
BindFailsOnlyBesideAWaitingLogin ==
    [][\A f \in Flows : BindFails(f) =>
          \A p \in Ports : \E g \in Flows \ {f} :
              /\ listener[p] = g /\ redirect[g] = p
              /\ pc[g] \in {"bound", "waiting"}]_vars

\* The login has its answer and waits for a connection whose handler has returned.
StalledBy(f, c) == pc[f] = "stopping" /\ c \in Served(f) /\ AwaitsBody(c)

\* Every login ends, whether or not a browser ever answers and however often one
\* does, unless a peer never sends the body it announced: then Shutdown, which has no
\* deadline, waits with it, past authCodeTimeout.  Nothing else holds it up: not the
\* handlers, which never wait for room in the channel (awaitCallback).
EveryLoginEnds ==
    \A f \in Flows :
        \/ <>(pc[f] \in {"done", "failed"})
        \/ \E c \in Conns : <>[]StalledBy(f, c)

(***************************************************************************)
(* The inductive invariant                                                 *)
(***************************************************************************)

PortInv ==
    /\ \A p \in Ports : listener[p] # Free =>
         redirect[listener[p]] = p /\ pc[listener[p]] \in {"bound", "waiting"}
    /\ \A f \in Flows :
         /\ pc[f] \in {"bound", "waiting"} => redirect[f] # NoPort /\ listener[redirect[f]] = f
         /\ pc[f] \in {"stopping", "exchange", "done"} => got[f] # None

AnswerInv ==
    /\ \A c \in Conns : conn[c] # Free => pc[conn[c].server] \in {"waiting", "stopping"}
    /\ \A f \in Flows :
         /\ resultCh[f] # None => resultCh[f].state = f /\ first[f] # None
         /\ first[f] # None => first[f].state = f
         /\ pc[f] \in {"start", "bound", "waiting"} => got[f] = None /\ resultCh[f] = first[f]
         /\ got[f] # None => got[f] = first[f]

IInv == TypeOK /\ PortInv /\ AnswerInv

=============================================================================

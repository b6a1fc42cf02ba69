-------------------------------- MODULE Rcon --------------------------------
(***************************************************************************)
(* infra/rcon/rcon.go and the closure of wiring.go that tries a command at *)
(* one address of a Minecraft server after the other.  Each address has    *)
(* one client, its mutex and at most one connection, kept from command to  *)
(* command; answers carry no check of the request they belong to.  The     *)
(* server is external: it may be slow, restart, refuse the password, and   *)
(* give an answer that is too long for the client.                         *)
(***************************************************************************)
EXTENDS Naturals, Sequences, FiniteSets

CONSTANTS
  Commands,     \* the commands to issue, each by a caller of its own
  Routes,       \* the addresses tried, in order
  MaxOutages,   \* bound: restarts of the server
  NoWire

Addrs == {Routes[i] : i \in DOMAIN Routes}

\* What travels on a connection: the password, a command; the answers to them.
Packets == Commands \cup {"auth", "accepted", "denied", "long"}
Wires == [live : BOOLEAN, authed : BOOLEAN, sent : Seq(Packets), back : Seq(Packets)]

ASSUME RconAssumption ==
  /\ Routes \in Seq(Addrs) /\ Routes # <<>>
  /\ Commands \cap {"auth", "accepted", "denied", "long"} = {}
  /\ NoWire \notin Wires
  /\ MaxOutages \in Nat

VARIABLES
  calls,     \* where each caller is, on which route, whose answer it got
  wire,      \* each client's connection: what is under way, and whether the server holds it
  late,      \* commands, each with its attempt, that the server may still read
             \* from a connection the client has closed
  ran,       \* how often the server has run each caller's command
  outages

rconVars == <<calls, wire, late, ran, outages>>

Unsent == [pc |-> "idle", route |-> 1, got |-> NoWire]
Dialled == [live |-> TRUE, authed |-> FALSE, sent |-> <<"auth">>, back |-> <<>>]

RconInit ==
  /\ calls = [c \in Commands |-> Unsent] /\ wire = [a \in Addrs |-> NoWire]
  /\ late = {} /\ ran = [c \in Commands |-> 0] /\ outages = 0

\* The client a caller is using; the caller that holds a client's mutex.
ClientFor(c) == Routes[calls[c].route]
Holds(c, a) == calls[c].pc \in {"auth", "send", "read"} /\ ClientFor(c) = a
Move(c, pc) == calls' = [calls EXCEPT ![c].pc = pc]

\* c.conn.Close(); c.conn = nil
Close(a) ==
  /\ wire' = [wire EXCEPT ![a] = NoWire]
  /\ late' = late \cup {<<c, calls[c].route>> : c \in {d \in Commands : \E i \in DOMAIN wire[a].sent : wire[a].sent[i] = d}}

(* Mutant: a failed command is tried again at the same address. *)
FailAndRepeat(c) == calls' = [calls EXCEPT ![c].pc = "call"]

\* The closure goes on to the next address, or reports the last error.
Fail(c) ==
  calls' = IF calls[c].route < Len(Routes) THEN [calls EXCEPT ![c].route = @ + 1, ![c].pc = "call"]
                                           ELSE [calls EXCEPT ![c].pc = "failed"]

RconExec(c) ==
  /\ calls[c].pc = "idle" /\ Move(c, "call")
  /\ UNCHANGED <<wire, late, ran, outages>>

\* The caller's context ended before it asked for the mutex.
Expired(c) == calls[c].pc = "call" /\ Fail(c) /\ UNCHANGED <<wire, late, ran, outages>>

(* Mutant: the answer to the password is not awaited. *)
ConnectEagerly(c) ==
  LET a == ClientFor(c)
  IN /\ calls[c].pc = "call" /\ \A d \in Commands : ~Holds(d, a)
     /\ \/ wire[a] # NoWire /\ UNCHANGED wire
        \/ wire[a] = NoWire /\ wire' = [wire EXCEPT ![a] = Dialled]
     /\ Move(c, "send")
     /\ UNCHANGED <<late, ran, outages>>

\* connect, under the mutex: a connection that is there is used as it is,
\* otherwise dial and send the password.
Connect(c) ==
  LET a == ClientFor(c)
  IN /\ calls[c].pc = "call" /\ \A d \in Commands : ~Holds(d, a)
     /\ \/ wire[a] # NoWire /\ Move(c, "send") /\ UNCHANGED wire
        \/ wire[a] = NoWire /\ Fail(c) /\ UNCHANGED wire
        \/ wire[a] = NoWire /\ wire' = [wire EXCEPT ![a] = Dialled] /\ Move(c, "auth")
     /\ UNCHANGED <<late, ran, outages>>

(* Mutant: a refused password leaves the connection in place. *)
ReadAuthKeeps(c) ==
  LET a == ClientFor(c)
  IN /\ calls[c].pc = "auth" /\ wire[a].back # <<>>
     /\ wire' = [wire EXCEPT ![a].back = Tail(@)]
     /\ IF Head(wire[a].back) = "denied" THEN Fail(c) ELSE Move(c, "send")
     /\ UNCHANGED <<late, ran, outages>>

ReadAuth(c) ==
  LET a == ClientFor(c)
  IN /\ calls[c].pc = "auth" /\ wire[a].back # <<>>
     /\ IF Head(wire[a].back) = "denied"
        THEN Fail(c) /\ Close(a)
        ELSE Move(c, "send") /\ wire' = [wire EXCEPT ![a].back = Tail(@)] /\ UNCHANGED late
     /\ UNCHANGED <<ran, outages>>

\* A write to a connection the server has dropped fails, or is lost unnoticed.
WritePacket(c) ==
  LET a == ClientFor(c)
  IN /\ calls[c].pc = "send"
     /\ \/ ~wire[a].live /\ Fail(c) /\ Close(a)
        \/ ~wire[a].live /\ Move(c, "read") /\ UNCHANGED <<wire, late>>
        \/ wire[a].live /\ Move(c, "read") /\ wire' = [wire EXCEPT ![a].sent = Append(@, c)]
           /\ UNCHANGED late
     /\ UNCHANGED <<ran, outages>>

\* readPacket: a packet longer than 4096 bytes is an error; any other is the
\* answer, whatever its id.
ReadPacket(c) ==
  LET a == ClientFor(c)
  IN /\ calls[c].pc = "read" /\ wire[a].back # <<>>
     /\ IF Head(wire[a].back) = "long"
        THEN Fail(c) /\ Close(a)
        ELSE /\ calls' = [calls EXCEPT ![c].pc = "done", ![c].got = Head(wire[a].back)]
             /\ wire' = [wire EXCEPT ![a].back = Tail(@)] /\ UNCHANGED late
     /\ UNCHANGED <<ran, outages>>

(* Mutant: a timeout keeps the connection for the next command. *)
TimedOutKeeps(c) ==
  /\ calls[c].pc \in {"auth", "read"} /\ wire[ClientFor(c)].back = <<>>
  /\ Fail(c) /\ UNCHANGED <<wire, late, ran, outages>>

\* The deadline passes, or the server has closed the connection.
TimedOut(c) ==
  /\ calls[c].pc \in {"auth", "read"} /\ wire[ClientFor(c)].back = <<>>
  /\ Fail(c) /\ Close(ClientFor(c))
  /\ UNCHANGED <<ran, outages>>

-----------------------------------------------------------------------------
(* The server.                                                             *)

Reply(a, packet) == [wire EXCEPT ![a].sent = Tail(@), ![a].back = Append(@, packet)]

ServerReads(a) ==
  /\ wire[a] # NoWire /\ wire[a].sent # <<>>
  /\ LET p == Head(wire[a].sent)
     IN IF p = "auth"
        THEN /\ UNCHANGED ran
             /\ \/ wire' = Reply(a, "denied")
                \/ wire' = [Reply(a, "accepted") EXCEPT ![a].authed = TRUE]
        ELSE /\ ran' = IF wire[a].authed THEN [ran EXCEPT ![p] = @ + 1] ELSE ran
             /\ \E packet \in IF wire[a].authed THEN {p, "long"} ELSE {"denied"} : wire' = Reply(a, packet)
  /\ UNCHANGED <<calls, late, outages>>

\* What was sent before the client hung up is read all the same.
ServerReadsLate(c) ==
  /\ \E t \in late : t[1] = c /\ late' = late \ {t}
  /\ ran' = [ran EXCEPT ![c] = @ + 1]
  /\ UNCHANGED <<calls, wire, outages>>

ServerGoesAway ==
  /\ outages < MaxOutages /\ outages' = outages + 1
  /\ wire' = [a \in Addrs |-> IF wire[a] = NoWire THEN NoWire
                              ELSE [wire[a] EXCEPT !.live = FALSE, !.sent = <<>>, !.back = <<>>]]
  /\ late' = {}
  /\ UNCHANGED <<calls, ran>>

RconNext ==
  \/ \E c \in Commands : \/ RconExec(c) \/ Expired(c) \/ Connect(c) \/ ReadAuth(c)
                        \/ WritePacket(c) \/ ReadPacket(c) \/ TimedOut(c) \/ ServerReadsLate(c)
  \/ \E a \in Addrs : ServerReads(a)
  \/ ServerGoesAway

RconSpec == RconInit /\ [][RconNext]_rconVars

-----------------------------------------------------------------------------
(* Properties.                                                             *)

\* The type of the state; a connection carries one packet at a time.
RconTypeOK ==
  /\ \A c \in Commands : calls[c].pc \in {"idle", "call", "auth", "send", "read", "done", "failed"}
                        /\ calls[c].route \in DOMAIN Routes
  /\ \A a \in Addrs : wire[a] # NoWire => Len(wire[a].sent) + Len(wire[a].back) <= 1
  /\ late \subseteq Commands \X DOMAIN Routes /\ outages \in 0..MaxOutages

\* readPacket ignores the packet's id: what a command returns is nevertheless
\* the answer to that command, which the server has run, after any timeouts,
\* restarts and commands of others on the same connection.
AnswerIsMine == \A c \in Commands : calls[c].pc = "done" => calls[c].got = c /\ ran[c] > 0

\* A connection that is kept for the next command has been let in by the
\* server, and nothing is left on it that the next command could take for its
\* answer.
KeptConnectionIsClean ==
  \A a \in Addrs : wire[a] # NoWire /\ (\A c \in Commands : ~Holds(c, a))
    => wire[a].authed /\ wire[a].sent = <<>> /\ wire[a].back = <<>>

\* An attempt runs a command at most once: the server has run it no more often
\* than there were addresses tried.
OncePerAttempt == \A c \in Commands : ran[c] <= calls[c].route

\* A command gets its own answer and is run once per address that is tried,
\* whatever earlier commands left on the connection (Execute, rconExecutor).
ConnectionsAreClean == AnswerIsMine /\ KeptConnectionIsClean /\ OncePerAttempt

\* Not so: the server runs each command at most once (RetriedCommand.cfg).
RunAtMostOnce == \A c \in Commands : ran[c] <= 1

\* Not so: a command that was reported as failed was not run
\* (scenario FailedButRun).
FailedIsNotRun == \A c \in Commands : calls[c].pc = "failed" => ran[c] = 0
=============================================================================

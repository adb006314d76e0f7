--------------------------- MODULE InstallerServer ---------------------------
(***************************************************************************)
(* idevice_installer_server.cpp on PmasServer.cpp: a TCP server with one   *)
(* client at a time.  For the k-th client a thread waits (acceptors[k],    *)
(* WaitConnectionInternal), which deletes the connection before; another   *)
(* reads its commands (loops[k], HandlerLoop); and each command has a      *)
(* thread of its own, which answers on the connection that is then the     *)
(* current one.                                                            *)
(*                                                                         *)
(* A message is a sequence of words, the name of a command and its         *)
(* parameters, each ended by a colon; "long" is a word that overruns the   *)
(* buffer.  What a command does with the device is in InstallerCommands:   *)
(* here it is done, or not.  m_bStopHandle is left out: the loop of a      *)
(* connection that is deleted has ended or is about to.                    *)
(***************************************************************************)
EXTENDS Naturals, Sequences, SequencesExt

CONSTANTS
    Command,         \* the commands clients send
    MaxClients,      \* bound: connections
    MaxCommands,     \* bound: messages of the clients, and threads for commands
    MaxCareless      \* bound: what clients do without care

InstallerAssumption ==
    /\ Command \subseteq {"CONNECT", "PING", "LIST", "INSTALL", "UNINSTALL", "EXIT"}
    /\ {MaxClients, MaxCommands, MaxCareless} \subseteq Nat

Client == 1..MaxClients

VARIABLES
    pmas,            \* the server: m_ConnectionMutex, m_pConnection, pConnection; what
                     \* has become of it, and of the care of its clients
    conns,           \* each connection: its memory and m_HandlerThread, the client's end,
                     \* the words on their way and the answers
    acceptors,       \* the thread that waits for each client
    loops,           \* the thread that reads each client's commands
    commands         \* the threads of the commands

vars == <<pmas, conns, acceptors, loops, commands>>

Init ==
    /\ pmas = [mutex |-> "free", m_pConnection |-> 0, pConnection |-> 0, messages |-> 0,
               deleted |-> FALSE, ended |-> FALSE, undefined |-> FALSE, struck |-> FALSE,
               careless |-> 0]
    /\ conns = [k \in Client |-> [memory |-> "none", thread |-> FALSE, peer |-> "none",
                                  input |-> << >>, output |-> << >>]]
    /\ acceptors = [k \in 1..(MaxClients + 1) |-> IF k = 1 THEN "lock" ELSE "none"]
    /\ loops = [k \in Client |-> [pc |-> "none", handler |-> "none", expected |-> 0,
                                  params |-> 0]]
    /\ commands = << >>

Arity(cmd) ==
    CASE cmd \in {"LIST", "UNINSTALL"} -> 2 [] cmd = "INSTALL" -> 1 [] OTHER -> 0

Undefined(bad) == pmas' = [pmas EXCEPT !.undefined = bad]

Busy == \E r \in DOMAIN commands : commands[r].pc # "done"

-----------------------------------------------------------------------------
(* WaitConnectionInternal for client k.                                    *)

Accepting(k, pc) == acceptors' = [acceptors EXCEPT ![k] = pc]

\* The connection before is deleted; TCPConnection::Stop tests m_HandlerThread.
AcceptLock(k) ==
    /\ acceptors[k] = "lock" /\ pmas.mutex = "free"
    /\ pmas' = [pmas EXCEPT !.mutex = "held", !.undefined = pmas.deleted]
    /\ Accepting(k, IF pmas.m_pConnection = 0 THEN "accept"
                    ELSE IF conns[k - 1].thread THEN "read" ELSE "delete")
    /\ UNCHANGED <<conns, loops, commands>>

\* It reads m_HandlerThread again, to join it: the loop may have stored NULL meanwhile.
AcceptRead(k) ==
    /\ acceptors[k] = "read"
    /\ Undefined(~conns[k - 1].thread)
    /\ Accepting(k, IF conns[k - 1].thread THEN "join" ELSE "nobody")
    /\ UNCHANGED <<conns, loops, commands>>

\* Bug: the loop is not waited for.
AcceptJoinNobody(k) ==
    /\ acceptors[k] = "join"
    /\ Accepting(k, "delete")
    /\ UNCHANGED <<pmas, conns, loops, commands>>

\* The future waits in its destructor, for longer than 60 seconds.
AcceptJoin(k) ==
    /\ acceptors[k] = "join" /\ loops[k - 1].pc = "done"
    /\ Accepting(k, "delete")
    /\ UNCHANGED <<pmas, conns, loops, commands>>

\* ~TCPConnection closes a descriptor that the loop closed when it saw the end: by now
\* the number may be that of a command's own connection, to the device.
AcceptDelete(k) ==
    /\ acceptors[k] = "delete"
    /\ conns' = [conns EXCEPT ![k - 1].memory = "freed", ![k - 1].thread = FALSE]
    /\ pmas' = [pmas EXCEPT !.m_pConnection = 0, !.struck = @ \/ Busy]
    /\ Accepting(k, "accept")
    /\ UNCHANGED <<loops, commands>>

\* The k-th client connects; or accept fails, and the server is deaf.
Accept(k) ==
    /\ acceptors[k] = "accept"
    /\ \/ /\ k \in Client
          /\ conns' = [conns EXCEPT ![k].memory = "live", ![k].peer = "open"]
          /\ pmas' = [pmas EXCEPT !.mutex = "free", !.m_pConnection = k,
                                  !.undefined = pmas.deleted]
          /\ Accepting(k, "handle")
       \/ /\ pmas' = [pmas EXCEPT !.mutex = "free", !.undefined = pmas.deleted]
          /\ Accepting(k, "deaf") /\ UNCHANGED conns
    /\ UNCHANGED <<loops, commands>>

\* HandleData: pConnection, the handlers, and the thread of HandleAll.
AcceptHandle(k) ==
    /\ acceptors[k] = "handle"
    /\ pmas' = [pmas EXCEPT !.pConnection = k]
    /\ loops' = [loops EXCEPT ![k].pc = "receive"]
    /\ Accepting(k, "store")
    /\ UNCHANGED <<conns, commands>>

\* m_HandlerThread is stored after its thread began.
AcceptStore(k) ==
    /\ acceptors[k] = "store"
    /\ conns' = [conns EXCEPT ![k].thread = TRUE]
    /\ Undefined(conns[k].memory = "freed")
    /\ Accepting(k, "done")
    /\ UNCHANGED <<loops, commands>>

-----------------------------------------------------------------------------
(* HandlerLoop of client k.                                                *)

\* What word w of the client makes of handler, expected and params.
Parsed(l, w) ==
    IF w = "long" THEN [l EXCEPT !.handler = "none"]
    ELSE IF l.handler = "none"
         THEN IF w \in Command THEN [l EXCEPT !.handler = w, !.expected = Arity(w)] ELSE l
    ELSE [l EXCEPT !.params = @ + 1, !.expected = @ - 1]

\* A detached thread runs the command; without one the loop ends and nobody is told.
RunCommand(k, l) ==
    \/ /\ commands' = Append(commands, [pc |-> "begin", cmd |-> l.handler, from |-> k,
                                        params |-> l.params, parts |-> << >>, sent |-> 0])
       /\ loops' = [loops EXCEPT ![k] = [l EXCEPT !.handler = "none", !.params = 0]]
    \/ loops' = [loops EXCEPT ![k].pc = "dead"] /\ UNCHANGED commands

LoopWord(k) ==
    /\ loops[k].pc = "receive" /\ conns[k].input # << >>
    /\ conns' = [conns EXCEPT ![k].input = Tail(@)]
    /\ LET l == Parsed(loops[k], Head(conns[k].input))
       IN  IF l.handler # "none" /\ l.expected = 0 THEN RunCommand(k, l)
           ELSE loops' = [loops EXCEPT ![k] = l] /\ UNCHANGED commands
    /\ UNCHANGED <<pmas, acceptors>>

AtEnd(k) == loops[k].pc = "receive" /\ conns[k].input = << >> /\ conns[k].peer = "closed"

\* Bug: the error handler has nothing to do.
LoopEndQuietly(k) ==
    /\ AtEnd(k)
    /\ loops' = [loops EXCEPT ![k].pc = "null"]
    /\ UNCHANGED <<pmas, conns, acceptors, commands>>

\* The descriptor is closed, and OnConnectionClosed called of an error handler that
\* ~TCPServer may have deleted.
LoopEnd(k) ==
    /\ AtEnd(k)
    /\ Undefined(pmas.deleted)
    /\ Accepting(k + 1, "lock")
    /\ loops' = [loops EXCEPT ![k].pc = "null"]
    /\ UNCHANGED <<conns, commands>>

LoopNull(k) ==
    /\ loops[k].pc = "null"
    /\ Undefined(conns[k].memory = "freed")
    /\ conns' = [conns EXCEPT ![k].thread = FALSE]
    /\ loops' = [loops EXCEPT ![k].pc = "done"]
    /\ UNCHANGED <<acceptors, commands>>

-----------------------------------------------------------------------------
(* The handler of command r.                                               *)

\* What is sent for a command that was done, or not: a status; for a list or an
\* installation its length and its text.  A failed installation has both.
Answer(cmd, ok) ==
    LET text == <<"0", "size", "text">>
    IN  CASE cmd = "CONNECT" -> << >>
          [] cmd = "PING" -> <<"PONG">>
          [] cmd = "LIST" -> IF ok THEN text ELSE <<"1">>
          [] cmd = "INSTALL" -> IF ok THEN text ELSE <<"1">> \o text
          [] cmd = "UNINSTALL" -> IF ok THEN <<"0">> ELSE <<"1">>
          [] cmd = "EXIT" -> <<"0">>

Sent(r) == SubSeq(commands[r].parts, 1, commands[r].sent)

After(c) == IF c.sent < Len(c.parts) THEN "send" ELSE IF c.cmd = "EXIT" THEN "exit" ELSE "done"

Continues(r, c) == commands' = [commands EXCEPT ![r] = [c EXCEPT !.pc = After(c)]]

\* The handler is called, if the connection and its handlers are still there; with the
\* wrong number of parameters a handler that has some does nothing.
Begin(r) ==
    LET c == commands[r]
        n == Arity(c.cmd)
    IN  /\ c.pc = "begin"
        /\ Undefined(conns[c.from].memory = "freed")
        /\ \E ok \in BOOLEAN :
              Continues(r, [c EXCEPT !.parts = IF n \in {0, c.params} THEN Answer(c.cmd, ok)
                                               ELSE << >>])
        /\ UNCHANGED <<conns, acceptors, loops>>

\* One Send on whatever is the current connection.  Nobody ignores SIGPIPE: when the
\* client has gone the bytes are lost, or the process is killed.
SendPart(r) ==
    LET c == commands[r]
        k == pmas.pConnection
    IN  /\ c.pc = "send"
        /\ Continues(r, [c EXCEPT !.sent = @ + 1])
        /\ IF conns[k].peer = "open"
           THEN /\ conns' = [conns EXCEPT ![k].output = Append(@, c.parts[c.sent + 1])]
                /\ UNCHANGED pmas
           ELSE /\ UNCHANGED conns
                /\ \/ Undefined(conns[k].memory = "freed")
                   \/ pmas' = [pmas EXCEPT !.ended = TRUE]
        /\ UNCHANGED <<acceptors, loops>>

\* EXIT: delete pPmasServer.  Stop, with no server counted as active, frees nothing;
\* the handlers are deleted, and the mutex, whoever holds it.
Exit(r) ==
    /\ commands[r].pc = "exit"
    /\ pmas' = [pmas EXCEPT !.deleted = TRUE,
                            !.undefined = pmas.deleted \/ pmas.mutex = "held"]
    /\ commands' = [commands EXCEPT ![r].pc = "done"]
    /\ UNCHANGED <<conns, acceptors, loops>>

\* main sees quit_flag within a tenth of a second.
MainEnds ==
    /\ pmas.deleted
    /\ pmas' = [pmas EXCEPT !.ended = TRUE]
    /\ UNCHANGED <<conns, acceptors, loops, commands>>

-----------------------------------------------------------------------------
(* The clients.  A careful one waits until a message has been dealt with   *)
(* before it sends the next or closes, and sends no word that is too long. *)

Message(cmd) == <<cmd>> \o [i \in 1..Arity(cmd) |-> "word"]

Dealt(k) == ~Busy /\ conns[k].input = << >>

With(care, p) ==
    \/ care /\ pmas' = p
    \/ ~care /\ p.careless < MaxCareless /\ pmas' = [p EXCEPT !.careless = @ + 1]

ClientSends(k, cmd) ==
    /\ conns[k].peer = "open" /\ pmas.messages < MaxCommands
    /\ \E long \in BOOLEAN :
          /\ conns' = [conns EXCEPT ![k].input =
                @ \o IF long THEN Front(Message(cmd)) \o <<"long">> ELSE Message(cmd)]
          /\ With(~long /\ Dealt(k), [pmas EXCEPT !.messages = @ + 1])
    /\ UNCHANGED <<acceptors, loops, commands>>

ClientCloses(k) ==
    /\ conns[k].peer = "open"
    /\ conns' = [conns EXCEPT ![k].peer = "closed"]
    /\ With(Dealt(k) /\ acceptors[k] = "done", pmas)
    /\ UNCHANGED <<acceptors, loops, commands>>

AcceptorStep(k) ==
    \/ AcceptLock(k) \/ AcceptRead(k) \/ AcceptJoin(k) \/ AcceptDelete(k)
    \/ AcceptHandle(k) \/ AcceptStore(k)

LoopStep(k) == LoopWord(k) \/ LoopEnd(k) \/ LoopNull(k)

Next ==
    /\ ~pmas.ended /\ ~pmas.undefined
    /\ \/ \E k \in DOMAIN acceptors : AcceptorStep(k) \/ Accept(k)
       \/ \E k \in Client :
             LoopStep(k) \/ ClientCloses(k) \/ \E cmd \in Command : ClientSends(k, cmd)
       \/ \E r \in DOMAIN commands : Begin(r) \/ SendPart(r) \/ Exit(r)
       \/ MainEnds

Spec == Init /\ [][Next]_vars

Threads ==
    /\ ~pmas.ended /\ ~pmas.undefined
    /\ (\E k \in DOMAIN acceptors : AcceptorStep(k)) \/ (\E k \in Client : LoopStep(k))

\* The threads of the server run; no client need do anything.
FairSpec == Spec /\ WF_vars(Threads)

-----------------------------------------------------------------------------
(* Properties.                                                             *)

TypeOK ==
    /\ pmas \in [mutex : {"free", "held"}, m_pConnection : 0..MaxClients,
                 pConnection : 0..MaxClients, messages : 0..MaxCommands,
                 deleted : BOOLEAN, ended : BOOLEAN, undefined : BOOLEAN,
                 struck : BOOLEAN, careless : 0..MaxCareless]
    /\ conns \in [Client -> [memory : {"none", "live", "freed"}, thread : BOOLEAN,
                             peer : {"none", "open", "closed"},
                             input : Seq(Command \cup {"word", "long"}),
                             output : Seq({"0", "1", "size", "text", "PONG"})]]
    /\ acceptors \in [1..(MaxClients + 1) -> {"none", "lock", "read", "join", "nobody", "delete",
                                              "accept", "handle", "store", "done", "deaf"}]
    /\ loops \in [Client -> [pc : {"none", "receive", "null", "done", "dead"},
                             handler : Command \cup {"none"}, expected : 0..2,
                             params : 0..(3 * MaxCommands)]]
    /\ commands \in Seq([pc : {"begin", "send", "exit", "done"}, cmd : Command,
                         from : Client, params : 0..(3 * MaxCommands), sent : 0..4,
                         parts : Seq({"0", "1", "size", "text", "PONG"})])

\* While clients are careful each gets the answers to its own commands, in whole and in
\* their order, whoever came before it; no memory that was freed is used, and no
\* descriptor is closed under a command, until the server is deleted.  One thing may go
\* wrong: a loop that ends stores NULL (349) between the two reads of m_HandlerThread in
\* Stop (384, 385), and nobody is joined.
AnsweredInWhole ==
    pmas.careless = 0 /\ ~pmas.deleted =>
        /\ ~pmas.ended /\ ~pmas.struck
        /\ pmas.undefined => \E k \in DOMAIN acceptors : acceptors[k] = "nobody"
        /\ \A k \in Client : conns[k].output =
              FlattenSeq([r \in DOMAIN commands |->
                              IF commands[r].from = k THEN Sent(r) ELSE << >>])
        /\ \A r \in DOMAIN commands :
              commands[r].pc = "done" /\ commands[r].cmd # "CONNECT" => Sent(r) # << >>

\* A client that has gone is followed by another, unless a command could not have its
\* thread, the server has ended, memory that was freed has been used or nobody joined.
ServerListens ==
    \A k \in Client : conns[k].peer = "closed" ~>
        \/ acceptors[k + 1] \in {"accept", "handle", "store", "done", "deaf"}
        \/ loops[k].pc = "dead" \/ pmas.deleted \/ pmas.undefined \/ pmas.ended
=============================================================================

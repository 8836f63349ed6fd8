-------------------------------- MODULE Server --------------------------------
(***************************************************************************)
(* sabi-server/src/main.rs with the messages of sabi-core/src/protocol.rs: *)
(* a task per connection reads from its socket and answers every read, as  *)
(* if what one read returns were one request.                              *)
(*                                                                         *)
(* TCP keeps the order of the bytes and nothing else: a request is Pieces  *)
(* pieces in the stream, and a read returns any number of them, up to the  *)
(* size of the buffer.  A client sends well-formed and malformed requests, *)
(* reads its answers, shuts down its side or loses the connection; the     *)
(* model has one read error and one write error, that of a lost            *)
(* connection.  The request id of an error response is a fresh TxId that   *)
(* no client knows: None.  The server does not call the database yet.      *)
(***************************************************************************)
EXTENDS Integers, Sequences, FiniteSetsExt

CONSTANTS
    Client,
    None,
    Pieces,         \* pieces a request is sent in
    BufSize,        \* pieces that fit in the buffer
    MaxRequests     \* bound: requests of a client

Response ==
    [type : {"Ok"}, request_id : Client \X (1..MaxRequests)]
      \cup [type : {"Error"}, request_id : {None}]

ASSUME ServerAssumption ==
    /\ {Pieces, BufSize} \subseteq Nat \ {0} /\ MaxRequests \in Nat
    /\ None \notin Response

VARIABLES
    up,         \* is the process running?
    sent,       \* sent[c]: the requests of the client, TRUE for well-formed
    stream,     \* stream[c]: pieces on their way to the server
    link,       \* link[c]: "open", "finished" by the client, or "reset"
    task,       \* task[c]: where handle_client is
    reply,      \* reply[c]: the response it is writing
    received,   \* received[c]: responses the client has got
    aligned     \* history: did every read return exactly one request?

clientVars == <<sent, link>>
vars == <<up, clientVars, stream, task, reply, received, aligned>>

Piece == [request : 1..MaxRequests, part : 1..Pieces]
OkResponse(c, i) == [type |-> "Ok", request_id |-> <<c, i>>]
ErrorResponse == [type |-> "Error", request_id |-> None]

Init ==
    /\ up = TRUE
    /\ sent = [c \in Client |-> <<>>] /\ stream = [c \in Client |-> <<>>]
    /\ link = [c \in Client |-> "open"]
    /\ task = [c \in Client |-> "none"] /\ reply = [c \in Client |-> None]
    /\ received = [c \in Client |-> <<>>]
    /\ aligned = [c \in Client |-> TRUE]

------------------------------------------------------------------------------
(* Clients and network                                                     *)

Send(c, wellFormed) ==
    /\ link[c] = "open" /\ Len(sent[c]) < MaxRequests
    /\ sent' = [sent EXCEPT ![c] = Append(@, wellFormed)]
    /\ stream' = [stream EXCEPT ![c] =
          @ \o [p \in 1..Pieces |-> [request |-> Len(sent[c]) + 1, part |-> p]]]
    /\ UNCHANGED <<up, link, task, reply, received, aligned>>

Finish(c) ==
    /\ link[c] = "open"
    /\ link' = [link EXCEPT ![c] = "finished"]
    /\ UNCHANGED <<up, sent, stream, task, reply, received, aligned>>

\* What is in the stream is lost with the connection.
Reset(c) ==
    /\ link[c] # "reset" /\ task[c] # "none"
    /\ link' = [link EXCEPT ![c] = "reset"]
    /\ stream' = [stream EXCEPT ![c] = <<>>]
    /\ UNCHANGED <<up, sent, task, reply, received, aligned>>

------------------------------------------------------------------------------
(* main                                                                    *)

Accept(c) ==
    /\ up /\ task[c] = "none"
    /\ task' = [task EXCEPT ![c] = "reading"]
    /\ UNCHANGED <<up, clientVars, stream, reply, received, aligned>>

\* `?' on accept ends main, and with the runtime every task; the sockets are
\* closed under their clients.
AcceptFails ==
    /\ up
    /\ up' = FALSE
    /\ task' = [c \in Client |-> "ended"]
    /\ reply' = [c \in Client |-> None]
    /\ link' = [c \in Client |-> "reset"]
    /\ stream' = [c \in Client |-> <<>>]
    /\ UNCHANGED <<sent, received, aligned>>

------------------------------------------------------------------------------
(* handle_client                                                           *)

\* The bytes are one request, all of it, and nothing else.
WholeRequest(msg) ==
    /\ Len(msg) = Pieces
    /\ \A p \in DOMAIN msg : msg[p] = [request |-> msg[1].request, part |-> p]

\* Mutation: a request that is only half right is accepted.
Parses_Lenient(c, msg) == WholeRequest(msg)

\* serde_json::from_slice::<Request>.
Parses(c, msg) == WholeRequest(msg) /\ sent[c][msg[1].request]

Respond(c, msg) ==
    IF Parses(c, msg) THEN OkResponse(c, msg[1].request) ELSE ErrorResponse

CanRead(c) == task[c] = "reading" /\ link[c] # "reset" /\ stream[c] # <<>>

Took(c, n, answer) ==
    /\ stream' = [stream EXCEPT ![c] = SubSeq(@, n + 1, Len(@))]
    /\ reply' = [reply EXCEPT ![c] = answer]
    /\ task' = [task EXCEPT ![c] = IF answer = None THEN "reading" ELSE "writing"]
    /\ aligned' = [aligned EXCEPT ![c] = @ /\ WholeRequest(SubSeq(stream[c], 1, n))]
    /\ UNCHANGED <<up, clientVars, received>>

\* Mutation: what cannot be parsed is not answered.
Read_Silent(c) ==
    /\ CanRead(c)
    /\ \E n \in 1..Min({Len(stream[c]), BufSize}) :
          LET answer == Respond(c, SubSeq(stream[c], 1, n))
          IN  Took(c, n, IF answer = ErrorResponse THEN None ELSE answer)

\* Mutation: read_exact.
Read_Exact(c) ==
    /\ CanRead(c) /\ Len(stream[c]) >= BufSize
    /\ Took(c, BufSize, Respond(c, SubSeq(stream[c], 1, BufSize)))

\* Ok(n): the n bytes are taken for a request and answered.
Read(c) ==
    /\ CanRead(c)
    /\ \E n \in 1..Min({Len(stream[c]), BufSize}) :
          Took(c, n, Respond(c, SubSeq(stream[c], 1, n)))

\* Ok(0), or an error: the loop ends.
ReadEnds(c) ==
    /\ task[c] = "reading"
    /\ link[c] = "reset" \/ (link[c] = "finished" /\ stream[c] = <<>>)
    /\ task' = [task EXCEPT ![c] = "ended"]
    /\ UNCHANGED <<up, clientVars, stream, reply, received, aligned>>

\* Mutation: the response is kept after it was sent.
WriteResponse_Keeps(c) ==
    /\ task[c] = "writing" /\ link[c] # "reset"
    /\ received' = [received EXCEPT ![c] = Append(@, reply[c])]
    /\ task' = [task EXCEPT ![c] = "reading"]
    /\ UNCHANGED <<up, clientVars, stream, reply, aligned>>

\* write_all.
WriteResponse(c) ==
    /\ task[c] = "writing" /\ link[c] # "reset"
    /\ received' = [received EXCEPT ![c] = Append(@, reply[c])]
    /\ reply' = [reply EXCEPT ![c] = None]
    /\ task' = [task EXCEPT ![c] = "reading"]
    /\ UNCHANGED <<up, clientVars, stream, aligned>>

\* An Ok that cannot be written ends the loop; of an Error, `let _ =' ignores it.
WriteFails(c) ==
    /\ task[c] = "writing" /\ link[c] = "reset"
    /\ reply' = [reply EXCEPT ![c] = None]
    /\ task' = [task EXCEPT ![c] = IF reply[c] = ErrorResponse THEN "reading" ELSE "ended"]
    /\ UNCHANGED <<up, clientVars, stream, received, aligned>>

HandleClient(c) == Read(c) \/ ReadEnds(c) \/ WriteResponse(c) \/ WriteFails(c)

Next ==
    \/ AcceptFails
    \/ \E c \in Client :
          \/ Accept(c)
          \/ HandleClient(c)
          \/ Finish(c)
          \/ Reset(c)
          \/ \E wellFormed \in BOOLEAN : Send(c, wellFormed)

\* tokio runs every task that can go on; a client takes its answers.
Fairness == \A c \in Client : WF_vars(HandleClient(c))

Spec == Init /\ [][Next]_vars /\ Fairness

------------------------------------------------------------------------------
(* Properties                                                              *)

\* Type invariant; a response is held exactly while it is being written.
TypeOK ==
    /\ up \in BOOLEAN
    /\ sent \in [Client -> Seq(BOOLEAN)]
    /\ stream \in [Client -> Seq(Piece)]
    /\ link \in [Client -> {"open", "finished", "reset"}]
    /\ task \in [Client -> {"none", "reading", "writing", "ended"}]
    /\ reply \in [Client -> Response \cup {None}]
    /\ received \in [Client -> Seq(Response)]
    /\ aligned \in [Client -> BOOLEAN]
    /\ \A c \in Client :
          /\ Len(sent[c]) =< MaxRequests
          /\ task[c] = "writing" <=> reply[c] # None
          /\ ~up => task[c] = "ended"

\* The responses to a client, the one being written included.
Answers(c) == IF reply[c] = None THEN received[c] ELSE Append(received[c], reply[c])

\* However TCP cuts the stream, an Ok goes to the client whose request it names,
\* only for well-formed requests, at most once, and in the order they were sent.
OksInOrder ==
    \A c \in Client : \A i \in DOMAIN Answers(c) :
        Answers(c)[i].type = "Ok" =>
            /\ \E k \in DOMAIN sent[c] : sent[c][k] /\ Answers(c)[i].request_id = <<c, k>>
            /\ \A j \in 1..(i - 1) :
                  Answers(c)[j].type = "Ok" =>
                      Answers(c)[j].request_id[2] < Answers(c)[i].request_id[2]

\* While every read happens to return one request, each request read has one
\* answer, at its own place, and what is left in the stream are the requests
\* after it.  The place is all that relates an Error to its request: its id is
\* fresh, where src/protocol.md:233 wants the request's.
AlignedAnswered ==
    \A c \in Client : aligned[c] =>
        /\ link[c] # "reset" =>
              Len(stream[c]) = Pieces * (Len(sent[c]) - Len(Answers(c)))
        /\ \A i \in DOMAIN Answers(c) :
              Answers(c)[i] = IF sent[c][i] THEN OkResponse(c, i) ELSE ErrorResponse

\* What arrives at a connection is read, and the task of a client that has gone
\* ends: neither a read nor a failed write leaves it waiting or spinning.
ConnectionsServed ==
    \A c \in Client :
        /\ task[c] # "none" /\ stream[c] # <<>> ~> stream[c] = <<>> \/ task[c] = "ended"
        /\ task[c] # "none" /\ link[c] # "open" ~> task[c] = "ended"

==============================================================================

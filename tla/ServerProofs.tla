---------------------------- MODULE ServerProofs ----------------------------
(***************************************************************************)
(* Proofs about Server: what a client gets, for any number of clients and  *)
(* requests, any size of requests and buffer.  What has to hold of one     *)
(* connection is stated about values (requests sent, pieces in the stream, *)
(* answers), so that a step of the server is a lemma about sequences.      *)
(***************************************************************************)
EXTENDS Server, SequenceTheorems, TLAPS

\* The assumption on the constants, one constant at a time.
LEMMA Bounds ==
  Pieces \in Nat \ {0} /\ BufSize \in Nat \ {0} /\ MaxRequests \in Nat /\ None \notin Response
  BY ServerAssumption

\* What a read returns is in the stream.
LEMMA ReadLen ==
  ASSUME NEW len \in Nat, NEW n \in 1..Min({len, BufSize})
  PROVE  n \in 1..len
  <1>1. PICK x \in {len, BufSize} : \A y \in {len, BufSize} : x =< y
    BY Bounds
  <1>2. Min({len, BufSize}) \in {len, BufSize} /\ Min({len, BufSize}) =< len
    BY <1>1, Bounds DEF Min
  <1> QED BY <1>2, Bounds

------------------------------------------------------------------------------
(* The inductive invariant                                                 *)

Before(a, b) == a.request < b.request \/ (a.request = b.request /\ a.part < b.part)

\* The stream is in the order of the requests, and has only requests that were sent.
StreamOrdered(snt, str) ==
    \A i \in 1..Len(str) :
        /\ str[i].request =< Len(snt)
        /\ \A j \in 1..(i - 1) : Before(str[j], str[i])

\* An Ok answers a well-formed request, later than the Oks before it and earlier
\* than everything that is still in the stream.
OkPlaced(c, snt, str, ans, i) ==
    /\ \E k \in 1..Len(snt) : snt[k] /\ ans[i].request_id = <<c, k>>
    /\ \A j \in 1..(i - 1) :
          ans[j].type = "Ok" => ans[j].request_id[2] < ans[i].request_id[2]
    /\ \A q \in 1..Len(str) : ans[i].request_id[2] < str[q].request

OksPlaced(c, snt, str, ans) ==
    \A i \in 1..Len(ans) : ans[i].type = "Ok" => OkPlaced(c, snt, str, ans, i)

\* While reads return whole requests, answer i is that of request i ...
AnswersPlaced(c, snt, ans) ==
    /\ Len(ans) =< Len(snt)
    /\ \A i \in 1..Len(ans) : ans[i] = IF snt[i] THEN OkResponse(c, i) ELSE ErrorResponse

\* ... and the stream holds exactly the requests after those.
StreamPlaced(snt, str, a) ==
    /\ Len(str) = Pieces * (Len(snt) - a)
    /\ \A k \in (a + 1)..Len(snt), p \in 1..Pieces :
          str[Pieces * (k - a - 1) + p] = [request |-> k, part |-> p]

ClientInv(c) ==
    /\ StreamOrdered(sent[c], stream[c])
    /\ OksPlaced(c, sent[c], stream[c], Answers(c))
    /\ aligned[c] => AnswersPlaced(c, sent[c], Answers(c))
    /\ aligned[c] /\ link[c] # "reset" =>
          StreamPlaced(sent[c], stream[c], Len(Answers(c)))

IInv == TypeOK /\ \A c \in Client : ClientInv(c)

------------------------------------------------------------------------------
(* Responses                                                               *)

\* A piece names a request and a part of it.
LEMMA PieceType ==
  ASSUME NEW x \in Piece
  PROVE  x.request \in 1..MaxRequests /\ x.part \in 1..Pieces
  BY DEF Piece

\* An Ok response names a client and the number of a request.
LEMMA OkType ==
  ASSUME NEW x \in Response, x.type = "Ok"
  PROVE  x.request_id \in Client \X (1..MaxRequests) /\ x.request_id[2] \in Nat
  BY Bounds DEF Response

\* The two responses of handle_client.
LEMMA ResponseTypes ==
  /\ ErrorResponse \in Response /\ ErrorResponse.type = "Error"
  /\ \A c \in Client, k \in 1..MaxRequests :
        /\ OkResponse(c, k) \in Response /\ OkResponse(c, k).type = "Ok"
        /\ OkResponse(c, k).request_id = <<c, k>>
  BY DEF ErrorResponse, OkResponse, Response

------------------------------------------------------------------------------
(* A request is sent                                                       *)

Request(k) == [p \in 1..Pieces |-> [request |-> k, part |-> p]]

\* A request goes behind what is in the stream, piece by piece.
LEMMA SendFacts ==
  ASSUME NEW str \in Seq(Piece), NEW k \in 1..MaxRequests
  PROVE  /\ str \o Request(k) \in Seq(Piece)
         /\ Len(str \o Request(k)) = Len(str) + Pieces
         /\ \A i \in 1..Len(str) : (str \o Request(k))[i] = str[i]
         /\ \A p \in 1..Pieces :
               (str \o Request(k))[Len(str) + p] = [request |-> k, part |-> p]
  <1>1. Request(k) \in [1..Pieces -> Piece]
    BY DEF Request, Piece
  <1>2. Request(k) \in Seq(Piece) /\ Len(Request(k)) = Pieces
    BY <1>1, Bounds, SeqDef, LenProperties
  <1>3. \A p \in 1..Pieces : Request(k)[p] = [request |-> k, part |-> p]
    BY DEF Request
  <1> HIDE DEF Request
  <1>4. /\ str \o Request(k) \in Seq(Piece)
        /\ Len(str \o Request(k)) = Len(str) + Pieces
        /\ \A i \in 1..(Len(str) + Pieces) : (str \o Request(k))[i] =
              IF i =< Len(str) THEN str[i] ELSE Request(k)[i - Len(str)]
    BY <1>2, ConcatProperties
  <1>5. Len(str) \in Nat
    OBVIOUS
  <1>6. ASSUME NEW p \in 1..Pieces
        PROVE  (str \o Request(k))[Len(str) + p] = [request |-> k, part |-> p]
    <2>1. Len(str) + p \in 1..(Len(str) + Pieces) /\ ~(Len(str) + p =< Len(str))
          /\ Len(str) + p - Len(str) = p
      BY <1>5, Bounds
    <2> QED BY <1>3, <1>4, <2>1
  <1> QED BY <1>4, <1>5, <1>6, Bounds

\* A new request comes after all others ...
LEMMA SendOrdered ==
  ASSUME NEW snt \in Seq(BOOLEAN), NEW str \in Seq(Piece), NEW b \in BOOLEAN,
         Len(snt) < MaxRequests, StreamOrdered(snt, str)
  PROVE  StreamOrdered(Append(snt, b), str \o Request(Len(snt) + 1))
  <1> DEFINE k == Len(snt) + 1
             new == str \o Request(k)
  <1>1. k \in 1..MaxRequests /\ Len(snt) \in Nat /\ Len(str) \in Nat
    BY Bounds
  <1>2. Len(Append(snt, b)) = k
    BY AppendProperties
  <1>3. /\ Len(new) = Len(str) + Pieces
        /\ \A i \in 1..Len(str) : new[i] = str[i]
        /\ \A p \in 1..Pieces : new[Len(str) + p] = [request |-> k, part |-> p]
    BY <1>1, SendFacts
  <1> HIDE DEF new
  <1>4. ASSUME NEW i \in 1..Len(new), i > Len(str)
        PROVE  i - Len(str) \in 1..Pieces /\ new[i].request = k /\ new[i].part = i - Len(str)
    <2>1. i - Len(str) \in 1..Pieces /\ i = Len(str) + (i - Len(str))
      BY <1>1, <1>3, <1>4, Bounds
    <2>2. new[i] = [request |-> k, part |-> i - Len(str)]
      BY <1>3, <2>1
    <2> QED BY <2>1, <2>2
  <1>5. \A i \in 1..Len(str) : new[i].request =< Len(snt) /\ new[i].request \in Nat
    BY <1>3, PieceType, Bounds DEF StreamOrdered
  <1>6. ASSUME NEW i \in 1..Len(new)
        PROVE  /\ new[i].request =< k
               /\ \A j \in 1..(i - 1) : Before(new[j], new[i])
    <2>1. CASE i =< Len(str)
      BY <1>1, <1>3, <1>5, <2>1 DEF StreamOrdered
    <2>2. CASE i > Len(str)
      <3>1. new[i].request = k /\ new[i].part = i - Len(str)
        BY <1>4, <2>2
      <3>2. ASSUME NEW j \in 1..(i - 1) PROVE Before(new[j], new[i])
        <4>1. CASE j =< Len(str)
          BY <1>1, <1>5, <3>1, <4>1 DEF Before
        <4>2. CASE j > Len(str)
          <5>1. j \in 1..Len(new)
            BY <1>1, <1>3, Bounds
          <5>2. new[j].request = k /\ new[j].part = j - Len(str)
            BY <1>4, <4>2, <5>1
          <5> QED BY <1>1, <3>1, <5>2 DEF Before
        <4> QED BY <1>1, <4>1, <4>2
      <3> QED BY <1>1, <3>1, <3>2
    <2> QED BY <1>1, <1>3, <2>1, <2>2, Bounds
  <1> QED BY <1>2, <1>6 DEF StreamOrdered, new

\* ... and so after all requests that were answered with Ok.
LEMMA SendOks ==
  ASSUME NEW c \in Client, NEW snt \in Seq(BOOLEAN), NEW str \in Seq(Piece), NEW b \in BOOLEAN,
         NEW ans \in Seq(Response), Len(snt) < MaxRequests, OksPlaced(c, snt, str, ans)
  PROVE  OksPlaced(c, Append(snt, b), str \o Request(Len(snt) + 1), ans)
  <1> DEFINE k == Len(snt) + 1
             new == str \o Request(k)
             more == Append(snt, b)
  <1>1. k \in 1..MaxRequests /\ Len(snt) \in Nat /\ Len(str) \in Nat
    BY Bounds
  <1>2. Len(more) = k /\ \A i \in 1..Len(snt) : more[i] = snt[i]
    BY AppendProperties
  <1>3. /\ Len(new) = Len(str) + Pieces
        /\ \A i \in 1..Len(str) : new[i] = str[i]
        /\ \A p \in 1..Pieces : new[Len(str) + p] = [request |-> k, part |-> p]
    BY <1>1, SendFacts
  <1> HIDE DEF new, more
  <1>4. ASSUME NEW i \in 1..Len(ans), ans[i].type = "Ok"
        PROVE  OkPlaced(c, more, new, ans, i)
    <2>1. OkPlaced(c, snt, str, ans, i)
      BY <1>4 DEF OksPlaced
    <2>2. PICK m \in 1..Len(snt) : snt[m] /\ ans[i].request_id = <<c, m>>
      BY <2>1 DEF OkPlaced
    <2>3. m \in 1..Len(more) /\ more[m]
      BY <1>1, <1>2, <2>2
    <2>4. ASSUME NEW q \in 1..Len(new) PROVE ans[i].request_id[2] < new[q].request
      <3>1. CASE q =< Len(str)
        BY <1>1, <1>3, <2>1, <3>1 DEF OkPlaced
      <3>2. CASE q > Len(str)
        <4>1. q - Len(str) \in 1..Pieces /\ q = Len(str) + (q - Len(str))
          BY <1>1, <1>3, <3>2, Bounds
        <4>2. new[q] = [request |-> k, part |-> q - Len(str)]
          BY <1>3, <4>1
        <4> QED BY <1>1, <2>2, <4>2
      <3> QED BY <1>1, <1>3, <3>1, <3>2, Bounds
    <2> QED BY <2>1, <2>2, <2>3, <2>4 DEF OkPlaced
  <1> QED BY <1>4 DEF OksPlaced, new, more

\* A new request has no answer yet.
LEMMA SendAnswers ==
  ASSUME NEW c \in Client, NEW snt \in Seq(BOOLEAN), NEW b \in BOOLEAN,
         NEW ans \in Seq(Response), AnswersPlaced(c, snt, ans)
  PROVE  AnswersPlaced(c, Append(snt, b), ans)
  <1>1. /\ Len(Append(snt, b)) = Len(snt) + 1
        /\ \A i \in 1..Len(snt) : Append(snt, b)[i] = snt[i]
    BY AppendProperties
  <1>2. Len(snt) \in Nat /\ Len(ans) \in Nat
    OBVIOUS
  <1> QED BY <1>1, <1>2 DEF AnswersPlaced

\* Arithmetic of positions in the stream.
LEMMA Times ==
  ASSUME NEW x \in Int, NEW y \in Int
  PROVE  /\ Pieces * (x + y) = Pieces * x + Pieces * y
         /\ x =< y => Pieces * x =< Pieces * y
         /\ x < y => Pieces * x + Pieces =< Pieces * y
         /\ Pieces * x \in Int /\ Pieces * 0 = 0 /\ Pieces * 1 = Pieces
  BY Bounds, SMTT(30)

\* A new request is at its place in an aligned stream.
LEMMA SendStream ==
  ASSUME NEW snt \in Seq(BOOLEAN), NEW str \in Seq(Piece), NEW b \in BOOLEAN, NEW a \in Nat,
         Len(snt) < MaxRequests, a =< Len(snt), StreamPlaced(snt, str, a)
  PROVE  StreamPlaced(Append(snt, b), str \o Request(Len(snt) + 1), a)
  <1> DEFINE k == Len(snt) + 1
             new == str \o Request(k)
             m == Len(snt) - a
  <1>1. k \in 1..MaxRequests /\ Len(snt) \in Nat /\ Len(str) \in Nat /\ m \in Nat
    BY Bounds
  <1>2. Len(Append(snt, b)) = k /\ k - a = m + 1
    BY <1>1, AppendProperties
  <1>3. /\ Len(new) = Len(str) + Pieces
        /\ \A i \in 1..Len(str) : new[i] = str[i]
        /\ \A p \in 1..Pieces : new[Len(str) + p] = [request |-> k, part |-> p]
    BY <1>1, SendFacts
  <1>4. Len(str) = Pieces * m
    BY DEF StreamPlaced
  <1> HIDE DEF new, m
  <1>5. Len(new) = Pieces * (k - a)
    <2>1. Pieces * (m + 1) = Pieces * m + Pieces * 1 /\ Pieces * 1 = Pieces
      BY <1>1, Times
    <2> QED BY <1>2, <1>3, <1>4, <2>1
  <1>6. ASSUME NEW h \in (a + 1)..k, NEW p \in 1..Pieces
        PROVE  new[Pieces * (h - a - 1) + p] = [request |-> h, part |-> p]
    <2>1. CASE h = k
      <3>1. k - a - 1 = m
        BY <1>1 DEF m
      <3> QED BY <1>3, <1>4, <2>1, <3>1
    <2>2. CASE h # k
      <3> DEFINE x == h - a - 1
      <3>1. h \in (a + 1)..Len(snt) /\ x \in Nat /\ x < m
        BY <1>1, <2>2 DEF m
      <3> HIDE DEF x
      <3>d. x \in Int /\ m \in Int /\ x < m
        BY <1>1, <3>1
      <3>a. Pieces * x + Pieces =< Pieces * m /\ Pieces * x \in Int
        BY <3>d, Times
      <3>b. 0 \in Int /\ 0 =< x
        BY <3>1
      <3>c. Pieces * 0 =< Pieces * x /\ Pieces * 0 = 0
        BY <3>1, <3>b, Times
      <3>2. Pieces * x + Pieces =< Pieces * m /\ Pieces * x \in Int /\ 0 =< Pieces * x
        BY <3>a, <3>c
      <3>3. Pieces * x + p \in 1..Len(str)
        BY <1>4, <3>2, Bounds
      <3>4. str[Pieces * x + p] = [request |-> h, part |-> p]
        BY <3>1 DEF StreamPlaced, x
      <3> QED BY <1>3, <3>3, <3>4 DEF x
    <2> QED BY <2>1, <2>2
  <1> QED BY <1>2, <1>5, <1>6 DEF StreamPlaced, new

------------------------------------------------------------------------------
(* A read                                                                  *)

Rest(str, n) == SubSeq(str, n + 1, Len(str))
Start(str, n) == SubSeq(str, 1, n)

\* What a read returns and what it leaves.
LEMMA ReadFacts ==
  ASSUME NEW str \in Seq(Piece), NEW n \in 1..Len(str)
  PROVE  /\ Rest(str, n) \in Seq(Piece) /\ Len(Rest(str, n)) = Len(str) - n
         /\ \A i \in 1..(Len(str) - n) : Rest(str, n)[i] = str[n + i]
         /\ Start(str, n) \in Seq(Piece) /\ Len(Start(str, n)) = n
         /\ \A i \in 1..n : Start(str, n)[i] = str[i]
  <1>1. Len(str) \in Nat /\ n \in Nat
    OBVIOUS
  <1>2. Start(str, n) \in Seq(Piece) /\ Len(Start(str, n)) = n
    BY <1>1, SubSeqProperties DEF Start
  <1>3. \A i \in 1..n : Start(str, n)[i] = str[i]
    BY <1>1, SubSeqProperties DEF Start
  <1>4. Rest(str, n) \in Seq(Piece) /\ Len(Rest(str, n)) = Len(str) - n
    BY <1>1, SubSeqProperties DEF Rest
  <1>5. \A i \in 1..(Len(str) - n) : Rest(str, n)[i] = str[n + i]
    BY <1>1, SubSeqProperties DEF Rest
  <1> QED BY <1>2, <1>3, <1>4, <1>5

\* A read keeps the order of the rest.
LEMMA ReadOrdered ==
  ASSUME NEW snt \in Seq(BOOLEAN), NEW str \in Seq(Piece), NEW n \in 1..Len(str),
         StreamOrdered(snt, str)
  PROVE  StreamOrdered(snt, Rest(str, n))
  <1> DEFINE new == Rest(str, n)
  <1>a. Len(str) \in Nat /\ n \in Nat
    OBVIOUS
  <1>b. /\ Len(new) = Len(str) - n
        /\ \A i \in 1..(Len(str) - n) : new[i] = str[n + i]
    BY ReadFacts
  <1>1. /\ Len(new) = Len(str) - n /\ Len(str) \in Nat
        /\ \A i \in 1..(Len(str) - n) : new[i] = str[n + i]
    BY <1>a, <1>b
  <1> HIDE DEF new
  <1>2. ASSUME NEW i \in 1..Len(new)
        PROVE  /\ new[i].request =< Len(snt)
               /\ \A j \in 1..(i - 1) : Before(new[j], new[i])
    <2>1. n + i \in 1..Len(str) /\ new[i] = str[n + i]
      BY <1>1
    <2>2. ASSUME NEW j \in 1..(i - 1) PROVE Before(new[j], new[i])
      <3>1. n + j \in 1..(n + i - 1) /\ new[j] = str[n + j]
        BY <1>1
      <3> QED BY <2>1, <3>1 DEF StreamOrdered
    <2> QED BY <2>1, <2>2 DEF StreamOrdered
  <1> QED BY <1>2 DEF StreamOrdered, new

\* A whole request at the front: all of its pieces, and those behind it belong to
\* later requests.
LEMMA WholeFacts ==
  ASSUME NEW snt \in Seq(BOOLEAN), NEW str \in Seq(Piece), NEW n \in 1..Len(str),
         StreamOrdered(snt, str), WholeRequest(Start(str, n))
  PROVE  /\ n = Pieces /\ Start(str, n)[1] = str[1] /\ str[1].part = 1
         /\ str[1].request \in 1..Len(snt) /\ str[1].request \in 1..MaxRequests
         /\ \A i \in 1..Len(Rest(str, n)) : str[1].request < Rest(str, n)[i].request
  <1> DEFINE new == Rest(str, n)
             msg == Start(str, n)
  <1>1. /\ Len(new) = Len(str) - n /\ Len(str) \in Nat /\ n \in Nat
        /\ \A i \in 1..(Len(str) - n) : new[i] = str[n + i]
        /\ \A i \in 1..n : msg[i] = str[i]
        /\ Len(msg) = n /\ DOMAIN msg = 1..n
    BY ReadFacts
  <1>2. n = Pieces /\ \A p \in 1..n : msg[p] = [request |-> msg[1].request, part |-> p]
    BY <1>1 DEF WholeRequest
  <1> HIDE DEF new, msg
  <1>3. 1 \in 1..n /\ 1 \in 1..Len(str) /\ n \in 1..n
    BY <1>1
  <1>4. msg[1] = str[1] /\ str[n] = [request |-> str[1].request, part |-> n]
        /\ str[1] = [request |-> str[1].request, part |-> 1]
    BY <1>1, <1>2, <1>3
  <1>5. \A i \in 1..Len(str) : str[i] \in Piece
    OBVIOUS
  <1>6. \A i \in 1..Len(str) : str[i].request \in 1..MaxRequests /\ str[i].part \in 1..Pieces
    BY <1>5, PieceType
  <1>7. str[1].request =< Len(snt)
    BY <1>3 DEF StreamOrdered
  <1>8. ASSUME NEW i \in 1..Len(new) PROVE str[1].request < new[i].request
    <2>1. n + i \in 1..Len(str) /\ new[i] = str[n + i] /\ n \in 1..(n + i - 1)
      BY <1>1
    <2>2. Before(str[n], str[n + i])
      BY <2>1 DEF StreamOrdered
    <2>3. str[n].request = str[1].request /\ str[n].part = n
      BY <1>4
    <2>4. str[n + i].part =< n
      BY <1>2, <1>6, <2>1, Bounds
    <2> QED BY <1>1, <1>6, <2>1, <2>2, <2>3, <2>4, Bounds DEF Before
  <1>9. str[1].part = 1
    BY <1>4
  <1> QED BY <1>2, <1>3, <1>4, <1>6, <1>7, <1>8, <1>9 DEF new, msg

Answer(c, snt, msg) ==
    IF WholeRequest(msg) /\ snt[msg[1].request] THEN OkResponse(c, msg[1].request)
    ELSE ErrorResponse

\* The answer to a read, whatever it returned, keeps the Oks in order.
LEMMA ReadOks ==
  ASSUME NEW c \in Client, NEW snt \in Seq(BOOLEAN), NEW str \in Seq(Piece),
         NEW n \in 1..Len(str), NEW ans \in Seq(Response),
         StreamOrdered(snt, str), OksPlaced(c, snt, str, ans)
  PROVE  /\ Answer(c, snt, Start(str, n)) \in Response
         /\ OksPlaced(c, snt, Rest(str, n), Append(ans, Answer(c, snt, Start(str, n))))
  <1> DEFINE new == Rest(str, n)
             msg == Start(str, n)
             x == Answer(c, snt, msg)
             more == Append(ans, x)
             last == Len(ans) + 1
  <1>1. /\ Len(new) = Len(str) - n /\ Len(str) \in Nat /\ n \in Nat /\ Len(ans) \in Nat
        /\ \A i \in 1..(Len(str) - n) : new[i] = str[n + i]
    BY ReadFacts
  <1>2. ASSUME x # ErrorResponse
        PROVE  /\ str[1].request \in 1..Len(snt) /\ str[1].request \in 1..MaxRequests
               /\ x = OkResponse(c, str[1].request) /\ snt[str[1].request]
               /\ \A i \in 1..Len(new) : str[1].request < new[i].request
    <2>1. WholeRequest(msg) /\ snt[msg[1].request] /\ x = OkResponse(c, msg[1].request)
      BY <1>2 DEF Answer
    <2> QED BY <2>1, WholeFacts
  <1>3. x \in Response
    BY <1>2, ResponseTypes
  <1> HIDE DEF new, x
  <1>4. Len(more) = last /\ more[last] = x /\ \A i \in 1..Len(ans) : more[i] = ans[i]
    BY <1>3, AppendProperties
  <1> HIDE DEF more
  <1>5. ASSUME NEW i \in 1..Len(ans), ans[i].type = "Ok" PROVE OkPlaced(c, snt, new, more, i)
    <2>1. OkPlaced(c, snt, str, ans, i)
      BY <1>5 DEF OksPlaced
    <2>2. \A q \in 1..Len(new) : ans[i].request_id[2] < new[q].request
      <3>1. \A q \in 1..Len(new) : n + q \in 1..Len(str) /\ new[q] = str[n + q]
        BY <1>1
      <3> QED BY <2>1, <3>1 DEF OkPlaced
    <2>3. more[i] = ans[i] /\ \A j \in 1..(i - 1) : more[j] = ans[j]
      BY <1>1, <1>4
    <2> QED BY <2>1, <2>2, <2>3 DEF OkPlaced
  <1>6. ASSUME x.type = "Ok" PROVE OkPlaced(c, snt, new, more, last)
    <2>1. x # ErrorResponse
      BY <1>6, ResponseTypes
    <2>2. PICK k \in 1..MaxRequests : k = str[1].request
      BY <1>2, <2>1
    <2>3. /\ k \in 1..Len(snt) /\ x.request_id = <<c, k>> /\ snt[k]
          /\ \A i \in 1..Len(new) : k < new[i].request
      BY <1>2, <2>1, <2>2, ResponseTypes
    <2>4. ASSUME NEW j \in 1..(last - 1), more[j].type = "Ok"
          PROVE  more[j].request_id[2] < k
      <3>1. j \in 1..Len(ans) /\ more[j] = ans[j] /\ 1 \in 1..Len(str)
        BY <1>1, <1>4
      <3>2. OkPlaced(c, snt, str, ans, j)
        BY <2>4, <3>1 DEF OksPlaced
      <3> QED BY <2>2, <3>1, <3>2 DEF OkPlaced
    <2> QED BY <1>4, <2>3, <2>4 DEF OkPlaced
  <1>7. ASSUME NEW i \in 1..Len(more), more[i].type = "Ok" PROVE OkPlaced(c, snt, new, more, i)
    <2>1. i \in 1..Len(ans) \/ i = last
      BY <1>1, <1>4
    <2> QED BY <1>4, <1>5, <1>6, <1>7, <2>1
  <1>8. OksPlaced(c, snt, new, more)
    BY <1>7 DEF OksPlaced
  <1> QED BY <1>3, <1>8 DEF new, more, x

\* A read of one whole request, when the stream holds exactly the requests that
\* are not answered.
LEMMA ReadAligned ==
  ASSUME NEW c \in Client, NEW snt \in Seq(BOOLEAN), NEW str \in Seq(Piece),
         NEW n \in 1..Len(str), NEW ans \in Seq(Response),
         StreamOrdered(snt, str), OksPlaced(c, snt, str, ans),
         WholeRequest(Start(str, n)),
         AnswersPlaced(c, snt, ans), StreamPlaced(snt, str, Len(ans))
  PROVE  LET more == Append(ans, Answer(c, snt, Start(str, n)))
         IN  AnswersPlaced(c, snt, more) /\ StreamPlaced(snt, Rest(str, n), Len(more))
  <1> DEFINE a == Len(ans)
             new == Rest(str, n)
             x == Answer(c, snt, Start(str, n))
             more == Append(ans, x)
             m == Len(snt) - a
  <1>a. Len(str) \in Nat /\ n \in Nat /\ a \in Nat /\ Len(snt) \in Nat
    OBVIOUS
  <1>b. /\ Len(new) = Len(str) - n
        /\ \A i \in 1..(Len(str) - n) : new[i] = str[n + i]
    BY ReadFacts
  <1>1. /\ Len(new) = Len(str) - n /\ Len(str) \in Nat /\ n \in Nat /\ a \in Nat
        /\ \A i \in 1..(Len(str) - n) : new[i] = str[n + i]
        /\ Len(snt) \in Nat
    BY <1>a, <1>b
  <1>2. a =< Len(snt) /\ Len(str) = Pieces * m /\ m \in Nat
    BY <1>1 DEF AnswersPlaced, StreamPlaced
  <1>3. m # 0
    <2>1. Pieces * 0 = 0
      BY Times
    <2>2. Len(str) # 0
      BY <1>1
    <2> QED BY <1>2, <2>1, <2>2
  <1>4. n = Pieces /\ Start(str, n)[1] = str[1] /\ str[1].part = 1
    BY WholeFacts
  <1>5. str[1].request = a + 1
    <2>1. a + 1 \in (a + 1)..Len(snt) /\ 1 \in 1..Pieces /\ a + 1 - a - 1 = 0
      BY <1>1, <1>2, <1>3, Bounds
    <2>2. str[Pieces * (a + 1 - a - 1) + 1] = [request |-> a + 1, part |-> 1]
      BY <2>1 DEF StreamPlaced
    <2>3. Pieces * 0 = 0
      BY Times
    <2>4. str[1] = [request |-> a + 1, part |-> 1]
      BY <2>1, <2>2, <2>3
    <2> QED BY <2>4
  <1>6. x = IF snt[a + 1] THEN OkResponse(c, a + 1) ELSE ErrorResponse
    BY <1>4, <1>5 DEF Answer
  <1>7. x \in Response
    BY ReadOks
  <1> HIDE DEF x, new, m
  <1>8. Len(more) = a + 1 /\ more[a + 1] = x /\ \A i \in 1..a : more[i] = ans[i]
    BY <1>7, AppendProperties
  <1> HIDE DEF more
  <1>9. AnswersPlaced(c, snt, more)
    <2>1. a + 1 =< Len(snt)
      BY <1>1, <1>2, <1>3 DEF m
    <2>2. \A i \in 1..(a + 1) : more[i] = IF snt[i] THEN OkResponse(c, i) ELSE ErrorResponse
      <3>1. \A i \in 1..a : more[i] = IF snt[i] THEN OkResponse(c, i) ELSE ErrorResponse
        BY <1>8 DEF AnswersPlaced
      <3>2. more[a + 1] = IF snt[a + 1] THEN OkResponse(c, a + 1) ELSE ErrorResponse
        BY <1>6, <1>8
      <3>3. \A i \in 1..(a + 1) : i \in 1..a \/ i = a + 1
        BY <1>1
      <3> QED BY <3>1, <3>2, <3>3
    <2> QED BY <1>8, <2>1, <2>2 DEF AnswersPlaced
  <1>10. StreamPlaced(snt, new, a + 1)
    <2>1. Len(new) = Pieces * (Len(snt) - (a + 1))
      <3> DEFINE w == m - 1
      <3>1. w \in Int /\ w + 1 = m /\ w = Len(snt) - (a + 1)
        BY <1>1, <1>2 DEF m
      <3>2. Pieces * (w + 1) = Pieces * w + Pieces * 1 /\ Pieces * 1 = Pieces
            /\ Pieces * w \in Int
        BY <3>1, Times
      <3> HIDE DEF w
      <3>a. Len(str) = Pieces * w + Pieces
        BY <1>2, <3>1, <3>2
      <3>b. Len(new) = Len(str) - Pieces
        BY <1>1, <1>4
      <3>3. Len(new) = Pieces * w
        BY <1>1, <3>2, <3>a, <3>b, Bounds
      <3> QED BY <3>1, <3>3
    <2>2. ASSUME NEW k \in (a + 2)..Len(snt), NEW p \in 1..Pieces
          PROVE  new[Pieces * (k - (a + 1) - 1) + p] = [request |-> k, part |-> p]
      <3> DEFINE w == k - (a + 1) - 1
                 e == Len(snt) - (a + 1)
      <3>1. w \in Nat /\ w + 1 = k - a - 1 /\ k \in (a + 1)..Len(snt) /\ w < e /\ e \in Int
        BY <1>1
      <3>2. Pieces * (w + 1) = Pieces * w + Pieces * 1 /\ Pieces * 1 = Pieces
            /\ Pieces * w \in Int
        BY <3>1, Times
      <3>3. Pieces * w + Pieces =< Pieces * e /\ Pieces * 0 =< Pieces * w /\ Pieces * 0 = 0
            /\ Pieces * e \in Int
        BY <3>1, Times
      <3>4. Pieces * w + p \in 1..(Len(str) - n)
        BY <1>1, <2>1, <3>2, <3>3, Bounds
      <3>5. new[Pieces * w + p] = str[n + (Pieces * w + p)]
        BY <1>1, <3>4
      <3>6. n + (Pieces * w + p) = Pieces * (k - a - 1) + p
        BY <1>4, <3>1, <3>2, Bounds
      <3>7. str[Pieces * (k - a - 1) + p] = [request |-> k, part |-> p]
        BY <3>1 DEF StreamPlaced
      <3> QED BY <3>5, <3>6, <3>7
    <2>3. a + 1 + 1 = a + 2
      BY <1>1
    <2> QED BY <2>1, <2>2, <2>3 DEF StreamPlaced
  <1> QED BY <1>8, <1>9, <1>10 DEF more, new, x

------------------------------------------------------------------------------
(* The steps                                                               *)

\* The answers of a client are responses, and begin with those it received.
LEMMA AnswersType ==
  ASSUME TypeOK, NEW c \in Client
  PROVE  /\ Answers(c) \in Seq(Response) /\ received[c] \in Seq(Response)
         /\ Len(received[c]) =< Len(Answers(c))
         /\ \A i \in 1..Len(received[c]) : Answers(c)[i] = received[c][i]
  <1>1. received[c] \in Seq(Response) /\ reply[c] \in Response \cup {None}
    BY DEF TypeOK
  <1>2. CASE reply[c] = None
    BY <1>1, <1>2 DEF Answers
  <1>3. CASE reply[c] # None
    <2>1. Answers(c) = Append(received[c], reply[c]) /\ reply[c] \in Response
      BY <1>1, <1>3 DEF Answers
    <2> QED BY <1>1, <2>1, AppendProperties
  <1> QED BY <1>2, <1>3

\* A connection on which the server took nothing new: the answers are the same, or
\* the connection is gone and the last one may be, too.
LEMMA Calm ==
  ASSUME TypeOK, NEW d \in Client, ClientInv(d),
         sent'[d] = sent[d], aligned'[d] = aligned[d],
         stream'[d] = stream[d] \/ stream'[d] = <<>>,
         Answers(d)' = Answers(d) \/ Answers(d)' = received[d],
         link'[d] # "reset" =>
            link[d] # "reset" /\ stream'[d] = stream[d] /\ Answers(d)' = Answers(d)
  PROVE  ClientInv(d)'
  <1> DEFINE str == stream'[d]
             ans == Answers(d)'
  <1>1. /\ Answers(d) \in Seq(Response) /\ received[d] \in Seq(Response)
        /\ Len(received[d]) =< Len(Answers(d))
        /\ \A i \in 1..Len(received[d]) : Answers(d)[i] = received[d][i]
    BY AnswersType
  <1>2. Len(Answers(d)) \in Nat /\ Len(received[d]) \in Nat
    BY <1>1
  <1>3. /\ Len(ans) \in Nat /\ Len(ans) =< Len(Answers(d))
        /\ \A i \in 1..Len(ans) : i \in 1..Len(Answers(d)) /\ ans[i] = Answers(d)[i]
    BY <1>1, <1>2
  <1>4. \A i \in 1..Len(str) : str = stream[d]
    OBVIOUS
  <1> HIDE DEF str, ans
  <1>5. StreamOrdered(sent[d], str)
    BY <1>4 DEF ClientInv, StreamOrdered
  <1>6. OksPlaced(d, sent[d], str, ans)
    <2> SUFFICES ASSUME NEW i \in 1..Len(ans), ans[i].type = "Ok"
                 PROVE  OkPlaced(d, sent[d], str, ans, i)
      BY DEF OksPlaced
    <2>1. i \in 1..Len(Answers(d)) /\ ans[i] = Answers(d)[i]
      BY <1>3
    <2>2. OkPlaced(d, sent[d], stream[d], Answers(d), i)
      BY <2>1 DEF ClientInv, OksPlaced
    <2>3. \A j \in 1..(i - 1) : ans[j] = Answers(d)[j]
      BY <1>3
    <2> QED BY <1>4, <2>1, <2>2, <2>3 DEF OkPlaced
  <1>7. aligned[d] => AnswersPlaced(d, sent[d], ans)
    <2>1. Len(sent[d]) \in Nat
      BY DEF TypeOK
    <2> QED BY <1>2, <1>3, <2>1 DEF ClientInv, AnswersPlaced
  <1>8. aligned[d] /\ link'[d] # "reset" => StreamPlaced(sent[d], str, Len(ans))
    BY DEF ClientInv, str, ans
  <1> QED BY <1>5, <1>6, <1>7, <1>8 DEF ClientInv, str, ans

\* Nothing happened on the connection.
LEMMA Other ==
  ASSUME NEW d \in Client, ClientInv(d), sent'[d] = sent[d], aligned'[d] = aligned[d],
         stream'[d] = stream[d], reply'[d] = reply[d], received'[d] = received[d],
         link'[d] = link[d]
  PROVE  ClientInv(d)'
  <1>1. Answers(d)' = Answers(d)
    BY DEF Answers
  <1> QED BY <1>1 DEF ClientInv

\* The inductive invariant holds when the server starts ...
LEMMA InvInit == Init => IInv
  <1> SUFFICES ASSUME Init PROVE IInv
    OBVIOUS
  <1>1. TypeOK
    BY Bounds DEF Init, TypeOK
  <1>2. ASSUME NEW c \in Client PROVE ClientInv(c)
    <2>1. sent[c] = <<>> /\ stream[c] = <<>> /\ Answers(c) = <<>>
      BY DEF Init, Answers
    <2>2. StreamOrdered(<<>>, <<>>) /\ OksPlaced(c, <<>>, <<>>, <<>>)
      BY DEF StreamOrdered, OksPlaced
    <2>3. AnswersPlaced(c, <<>>, <<>>)
      BY DEF AnswersPlaced
    <2>4. StreamPlaced(<<>>, <<>>, 0)
      <3>1. Pieces * 0 = 0
        BY Times
      <3> QED BY <3>1 DEF StreamPlaced
    <2> QED BY <2>1, <2>2, <2>3, <2>4 DEF ClientInv
  <1> QED BY <1>1, <1>2 DEF IInv

\* ... a client keeps it when it sends a request ...
LEMMA SendStep ==
  ASSUME IInv, NEW c \in Client, NEW b \in BOOLEAN, Send(c, b)
  PROVE  IInv'
  <1>1. /\ TypeOK /\ sent \in [Client -> Seq(BOOLEAN)] /\ stream \in [Client -> Seq(Piece)]
        /\ ClientInv(c) /\ \A d \in Client : ClientInv(d)
    BY DEF IInv, TypeOK
  <1>2. /\ sent' = [sent EXCEPT ![c] = Append(sent[c], b)]
        /\ stream' = [stream EXCEPT ![c] = stream[c] \o Request(Len(sent[c]) + 1)]
        /\ link[c] = "open" /\ Len(sent[c]) < MaxRequests
        /\ UNCHANGED <<up, link, task, reply, received, aligned>>
    BY <1>1 DEF Send, Request
  <1>3. Len(sent[c]) + 1 \in 1..MaxRequests /\ Len(sent[c]) \in Nat
    BY <1>1, <1>2, Bounds
  <1>4. sent'[c] = Append(sent[c], b) /\ stream'[c] = stream[c] \o Request(Len(sent[c]) + 1)
    BY <1>1, <1>2
  <1>5. /\ Append(sent[c], b) \in Seq(BOOLEAN) /\ Len(Append(sent[c], b)) =< MaxRequests
        /\ stream[c] \o Request(Len(sent[c]) + 1) \in Seq(Piece)
    BY <1>1, <1>3, SendFacts, AppendProperties
  <1>6. TypeOK'
    <2>1. sent' \in [Client -> Seq(BOOLEAN)] /\ stream' \in [Client -> Seq(Piece)]
      BY <1>1, <1>2, <1>5
    <2>2. \A d \in Client : Len(sent'[d]) =< MaxRequests
      BY <1>1, <1>2, <1>5 DEF TypeOK
    <2> QED BY <1>1, <1>2, <2>1, <2>2 DEF TypeOK
  <1>7. Answers(c)' = Answers(c) /\ Answers(c) \in Seq(Response) /\ Len(Answers(c)) \in Nat
    <2>1. Answers(c) \in Seq(Response)
      BY <1>1, AnswersType
    <2> QED BY <1>2, <2>1 DEF Answers
  <1>8. ClientInv(c)'
    <2>1. StreamOrdered(sent'[c], stream'[c])
      BY <1>1, <1>2, <1>4, SendOrdered DEF ClientInv
    <2>2. OksPlaced(c, sent'[c], stream'[c], Answers(c))
      BY <1>1, <1>2, <1>4, <1>7, SendOks DEF ClientInv
    <2>3. aligned[c] => AnswersPlaced(c, sent'[c], Answers(c))
      BY <1>1, <1>2, <1>4, <1>7, SendAnswers DEF ClientInv
    <2>4. aligned[c] => StreamPlaced(sent'[c], stream'[c], Len(Answers(c)))
      <3>1. aligned[c] => /\ Len(Answers(c)) =< Len(sent[c])
                          /\ StreamPlaced(sent[c], stream[c], Len(Answers(c)))
        BY <1>1, <1>2 DEF ClientInv, AnswersPlaced
      <3> QED BY <1>1, <1>2, <1>4, <1>7, <3>1, SendStream
    <2> QED BY <1>2, <1>7, <2>1, <2>2, <2>3, <2>4 DEF ClientInv
  <1>9. ASSUME NEW d \in Client, d # c PROVE ClientInv(d)'
    BY <1>1, <1>2, <1>9, Other
  <1> QED BY <1>6, <1>8, <1>9 DEF IInv

\* ... handle_client keeps it in a read ...
LEMMA ReadStep ==
  ASSUME IInv, NEW c \in Client, Read(c)
  PROVE  IInv'
  <1>1. /\ TypeOK /\ sent \in [Client -> Seq(BOOLEAN)] /\ stream \in [Client -> Seq(Piece)]
        /\ ClientInv(c) /\ \A d \in Client : ClientInv(d)
        /\ reply \in [Client -> Response \cup {None}]
        /\ task \in [Client -> {"none", "reading", "writing", "ended"}]
        /\ aligned \in [Client -> BOOLEAN]
    BY DEF IInv, TypeOK
  <1>2. CanRead(c) /\ Len(stream[c]) \in Nat
    BY <1>1 DEF Read
  <1>3. PICK n \in 1..Min({Len(stream[c]), BufSize}) :
           Took(c, n, Respond(c, Start(stream[c], n)))
    BY DEF Read, Start
  <1>4. n \in 1..Len(stream[c])
    BY <1>2, ReadLen
  <1> DEFINE msg == Start(stream[c], n)
             x == Answer(c, sent[c], msg)
             more == Append(Answers(c), x)
  <1>5. Respond(c, msg) = x
    BY DEF Respond, Parses, Answer
  <1>6. Answers(c) \in Seq(Response) /\ StreamOrdered(sent[c], stream[c])
        /\ OksPlaced(c, sent[c], stream[c], Answers(c))
    BY <1>1, AnswersType DEF ClientInv
  <1>7. x \in Response /\ OksPlaced(c, sent[c], Rest(stream[c], n), more)
    BY <1>1, <1>4, <1>6, ReadOks
  <1>8. x # None
    BY <1>7, Bounds
  <1> HIDE DEF x
  <1>9. /\ stream' = [stream EXCEPT ![c] = Rest(stream[c], n)]
        /\ reply' = [reply EXCEPT ![c] = x]
        /\ task' = [task EXCEPT ![c] = "writing"]
        /\ aligned' = [aligned EXCEPT ![c] = aligned[c] /\ WholeRequest(msg)]
        /\ UNCHANGED <<up, sent, link, received>>
    BY <1>1, <1>3, <1>5, <1>8 DEF Took, clientVars, Rest, Start
  <1>10. /\ stream'[c] = Rest(stream[c], n) /\ reply'[c] = x
         /\ aligned'[c] = (aligned[c] /\ WholeRequest(msg))
    BY <1>1, <1>9
  <1>11. reply[c] = None /\ link[c] # "reset" /\ up
    BY <1>1, <1>2 DEF CanRead, TypeOK
  <1>12. Answers(c)' = more
    BY <1>8, <1>9, <1>10, <1>11 DEF Answers
  <1>13. Rest(stream[c], n) \in Seq(Piece)
    BY <1>1, <1>4, ReadFacts
  <1>14. TypeOK'
    <2>1. stream' \in [Client -> Seq(Piece)]
      BY <1>1, <1>9, <1>13
    <2>2. reply' \in [Client -> Response \cup {None}]
      BY <1>1, <1>7, <1>9
    <2>3. task' \in [Client -> {"none", "reading", "writing", "ended"}]
      BY <1>1, <1>9
    <2>4. aligned' \in [Client -> BOOLEAN]
      BY <1>1, <1>9, Zenon
    <2>5. \A d \in Client : task'[d] = "writing" <=> reply'[d] # None
      BY <1>1, <1>8, <1>9 DEF TypeOK
    <2>6. up' = TRUE
      BY <1>1, <1>9, <1>11 DEF TypeOK
    <2>7. (\A d \in Client : Len(sent[d]) =< MaxRequests)'
      BY <1>1, <1>9 DEF TypeOK
    <2>8. (/\ sent \in [Client -> Seq(BOOLEAN)]
           /\ link \in [Client -> {"open", "finished", "reset"}]
           /\ received \in [Client -> Seq(Response)])'
      BY <1>1, <1>9 DEF TypeOK
    <2> QED BY <2>1, <2>2, <2>3, <2>4, <2>5, <2>6, <2>7, <2>8 DEF TypeOK
  <1>15. ClientInv(c)'
    <2>1. StreamOrdered(sent[c], Rest(stream[c], n))
      BY <1>1, <1>4, <1>6, ReadOrdered
    <2>2. aligned'[c] =>
             /\ AnswersPlaced(c, sent[c], more)
             /\ StreamPlaced(sent[c], Rest(stream[c], n), Len(more))
      <3> SUFFICES ASSUME aligned[c], WholeRequest(msg)
                   PROVE  /\ AnswersPlaced(c, sent[c], more)
                          /\ StreamPlaced(sent[c], Rest(stream[c], n), Len(more))
        BY <1>10
      <3>1. AnswersPlaced(c, sent[c], Answers(c))
            /\ StreamPlaced(sent[c], stream[c], Len(Answers(c)))
        BY <1>1, <1>11 DEF ClientInv
      <3> QED BY <1>1, <1>4, <1>6, <3>1, ReadAligned DEF x
    <2> HIDE DEF more
    <2> QED BY <1>7, <1>9, <1>10, <1>12, <2>1, <2>2 DEF ClientInv
  <1>16. ASSUME NEW d \in Client, d # c PROVE ClientInv(d)'
    BY <1>1, <1>9, <1>16, Other
  <1> QED BY <1>14, <1>15, <1>16 DEF IInv

\* Steps that neither send nor read a request.
LEMMA CalmStep ==
  ASSUME IInv,
         \/ AcceptFails \/ UNCHANGED vars
         \/ \E c \in Client : \/ Accept(c) \/ ReadEnds(c) \/ WriteResponse(c) \/ WriteFails(c)
                              \/ Finish(c) \/ Reset(c)
  PROVE  IInv'
  <1>a. /\ TypeOK /\ \A d \in Client : ClientInv(d)
        /\ sent \in [Client -> Seq(BOOLEAN)] /\ stream \in [Client -> Seq(Piece)]
        /\ reply \in [Client -> Response \cup {None}] /\ received \in [Client -> Seq(Response)]
        /\ link \in [Client -> {"open", "finished", "reset"}]
        /\ task \in [Client -> {"none", "reading", "writing", "ended"}]
        /\ aligned \in [Client -> BOOLEAN] /\ up \in BOOLEAN
    BY DEF IInv, TypeOK
  <1>b. \A d \in Client : /\ Len(sent[d]) =< MaxRequests
                          /\ task[d] = "writing" <=> reply[d] # None
                          /\ ~up => task[d] = "ended"
    BY DEF IInv, TypeOK
  <1>1. CASE AcceptFails
    <2>1. TypeOK'
      <3>1. /\ up' = FALSE /\ UNCHANGED <<sent, received, aligned>>
            /\ task' = [c \in Client |-> "ended"] /\ reply' = [c \in Client |-> None]
            /\ link' = [c \in Client |-> "reset"] /\ stream' = [c \in Client |-> <<>>]
        BY <1>1 DEF AcceptFails
      <3>2. /\ task' \in [Client -> {"none", "reading", "writing", "ended"}]
            /\ reply' \in [Client -> Response \cup {None}]
        BY <3>1
      <3>3. /\ link' \in [Client -> {"open", "finished", "reset"}]
            /\ stream' \in [Client -> Seq(Piece)]
        BY <3>1
      <3>4. \A d \in Client : task'[d] = "ended" /\ reply'[d] = None
        BY <3>1
      <3> QED BY <1>a, <1>b, <3>1, <3>2, <3>3, <3>4 DEF TypeOK
    <2>2. ASSUME NEW d \in Client PROVE ClientInv(d)'
      <3>1. /\ sent'[d] = sent[d] /\ aligned'[d] = aligned[d] /\ stream'[d] = <<>>
            /\ link'[d] = "reset" /\ reply'[d] = None /\ received' = received
        BY <1>1 DEF AcceptFails
      <3>2. Answers(d)' = received[d]
        BY <3>1 DEF Answers
      <3> QED BY <1>a, <3>1, <3>2, Calm
    <2> QED BY <2>1, <2>2 DEF IInv
  <1>2. CASE UNCHANGED vars
    BY <1>2, <1>a, <1>b, Other DEF vars, clientVars, IInv, TypeOK
  <1>3. ASSUME NEW c \in Client, Accept(c) \/ ReadEnds(c)
        PROVE  IInv'
    <2>1. /\ UNCHANGED <<up, sent, link, stream, reply, received, aligned>>
          /\ task' \in [Client -> {"none", "reading", "writing", "ended"}]
      BY <1>3, <1>a DEF Accept, ReadEnds, clientVars
    <2>2. \A d \in Client : /\ task'[d] = "writing" <=> reply[d] # None
                            /\ ~up => task'[d] = "ended"
      BY <1>3, <1>a, <1>b DEF Accept, ReadEnds
    <2>3. TypeOK'
      BY <1>a, <1>b, <2>1, <2>2 DEF TypeOK
    <2> QED BY <1>a, <2>1, <2>3, Other DEF IInv
  <1>4. ASSUME NEW c \in Client, WriteResponse(c)
        PROVE  IInv'
    <2>1. /\ UNCHANGED <<up, sent, link, stream, aligned>>
          /\ received' = [received EXCEPT ![c] = Append(received[c], reply[c])]
          /\ reply' = [reply EXCEPT ![c] = None] /\ task' = [task EXCEPT ![c] = "reading"]
          /\ task[c] = "writing"
      BY <1>4, <1>a DEF WriteResponse, clientVars
    <2>2. reply[c] # None /\ reply[c] \in Response /\ up
      BY <1>a, <1>b, <2>1
    <2>3. Append(received[c], reply[c]) \in Seq(Response)
      BY <1>a, <2>2
    <2>4. TypeOK'
      <3>1. /\ received' \in [Client -> Seq(Response)]
            /\ reply' \in [Client -> Response \cup {None}]
            /\ task' \in [Client -> {"none", "reading", "writing", "ended"}]
        BY <1>a, <2>1, <2>3
      <3>2. \A d \in Client : /\ task'[d] = "writing" <=> reply'[d] # None
                              /\ ~up => task'[d] = "ended"
        BY <1>a, <1>b, <2>1, <2>2
      <3> QED BY <1>a, <1>b, <2>1, <3>1, <3>2 DEF TypeOK
    <2>5. ASSUME NEW d \in Client PROVE ClientInv(d)'
      <3>1. CASE d = c
        <4>1. Answers(d)' = Answers(d)
          BY <1>a, <2>1, <2>2, <3>1 DEF Answers
        <4> QED BY <1>a, <2>1, <4>1, Calm
      <3>2. CASE d # c
        BY <1>a, <2>1, <3>2, Other
      <3> QED BY <3>1, <3>2
    <2> QED BY <2>4, <2>5 DEF IInv
  <1>5. ASSUME NEW c \in Client, WriteFails(c)
        PROVE  IInv'
    <2>1. /\ UNCHANGED <<up, sent, link, stream, received, aligned>>
          /\ reply' = [reply EXCEPT ![c] = None]
          /\ task' \in {[task EXCEPT ![c] = "reading"], [task EXCEPT ![c] = "ended"]}
          /\ task[c] = "writing" /\ link[c] = "reset"
      BY <1>5, <1>a DEF WriteFails, clientVars
    <2>2. up
      BY <1>a, <1>b, <2>1
    <2>3. TypeOK'
      <3>1. /\ reply' \in [Client -> Response \cup {None}]
            /\ task' \in [Client -> {"none", "reading", "writing", "ended"}]
        BY <1>a, <2>1
      <3>2. \A d \in Client : task'[d] = "writing" <=> reply'[d] # None
        BY <1>a, <1>b, <2>1, <2>2
      <3> QED BY <1>a, <1>b, <2>1, <2>2, <3>1, <3>2 DEF TypeOK
    <2>4. ASSUME NEW d \in Client PROVE ClientInv(d)'
      <3>1. CASE d = c
        <4>1. Answers(d)' = received[d]
          BY <1>a, <2>1, <3>1 DEF Answers
        <4> QED BY <1>a, <2>1, <3>1, <4>1, Calm
      <3>2. CASE d # c
        BY <1>a, <2>1, <3>2, Other
      <3> QED BY <3>1, <3>2
    <2> QED BY <2>3, <2>4 DEF IInv
  <1>6. ASSUME NEW c \in Client, Finish(c) \/ Reset(c)
        PROVE  IInv'
    <2>1. /\ UNCHANGED <<up, sent, task, reply, received, aligned>>
          /\ \/ /\ link[c] = "open" /\ link' = [link EXCEPT ![c] = "finished"]
                /\ stream' = stream
             \/ /\ link' = [link EXCEPT ![c] = "reset"]
                /\ stream' = [stream EXCEPT ![c] = <<>>]
      BY <1>6 DEF Finish, Reset
    <2>2. /\ link' \in [Client -> {"open", "finished", "reset"}]
          /\ stream' \in [Client -> Seq(Piece)]
      <3>1. <<>> \in Seq(Piece)
        OBVIOUS
      <3>2. stream' \in [Client -> Seq(Piece)]
        BY <1>a, <2>1, <3>1
      <3>3. link' \in [Client -> {"open", "finished", "reset"}]
        BY <1>a, <2>1
      <3> QED BY <3>2, <3>3
    <2>3. TypeOK'
      BY <1>a, <1>b, <2>1, <2>2 DEF TypeOK
    <2>4. ASSUME NEW d \in Client PROVE ClientInv(d)'
      <3>1. Answers(d)' = Answers(d)
        BY <2>1 DEF Answers
      <3>2. \/ link'[d] = link[d] /\ stream'[d] = stream[d]
            \/ link[d] = "open" /\ link'[d] = "finished" /\ stream'[d] = stream[d]
            \/ link'[d] = "reset" /\ stream'[d] = <<>>
        BY <1>a, <2>1
      <3> QED BY <1>a, <2>1, <3>1, <3>2, Calm
    <2> QED BY <2>3, <2>4 DEF IInv
  <1> QED BY <1>1, <1>2, <1>3, <1>4, <1>5, <1>6

\* ... so every step preserves it.
LEMMA InvNext == IInv /\ [Next]_vars => IInv'
  BY SendStep, ReadStep, CalmStep DEF Next, HandleClient

\* The inductive invariant holds in every reachable state, however the network
\* cuts, delays or drops the connections.
THEOREM Invariance == Spec => []IInv
  BY InvInit, InvNext, PTL DEF Spec

------------------------------------------------------------------------------
(* Theorems                                                                *)

\* Every reachable state is well-typed, and a response is held exactly while
\* handle_client is writing it.
THEOREM TypeCorrect == Spec => []TypeOK
  BY Invariance, PTL DEF IInv

\* However TCP cuts the stream into reads, an Ok goes to the client whose request
\* it names, only for well-formed requests, at most once, and in their order: a
\* read that is taken for a request is all of it and nothing else.
THEOREM OksCorrect == Spec => []OksInOrder
  <1>1. IInv => OksInOrder
    <2> SUFFICES ASSUME IInv, NEW c \in Client, NEW i \in DOMAIN Answers(c),
                        Answers(c)[i].type = "Ok"
                 PROVE  /\ \E k \in DOMAIN sent[c] :
                              sent[c][k] /\ Answers(c)[i].request_id = <<c, k>>
                        /\ \A j \in 1..(i - 1) :
                              Answers(c)[j].type = "Ok" =>
                                 Answers(c)[j].request_id[2] < Answers(c)[i].request_id[2]
      BY DEF OksInOrder
    <2>1. Answers(c) \in Seq(Response) /\ sent[c] \in Seq(BOOLEAN)
      BY AnswersType DEF IInv, TypeOK
    <2>2. i \in 1..Len(Answers(c)) /\ DOMAIN sent[c] = 1..Len(sent[c])
      BY <2>1
    <2>3. OkPlaced(c, sent[c], stream[c], Answers(c), i)
      BY <2>2 DEF IInv, ClientInv, OksPlaced
    <2> QED BY <2>2, <2>3 DEF OkPlaced
  <1> QED BY <1>1, Invariance, PTL

\* While every read returns exactly one request, answer i is the answer to request
\* i, and what is left in the stream are exactly the requests not yet answered.
THEOREM AlignedCorrect == Spec => []AlignedAnswered
  <1>1. IInv => AlignedAnswered
    <2> SUFFICES ASSUME IInv, NEW c \in Client, aligned[c]
                 PROVE  /\ link[c] # "reset" =>
                              Len(stream[c]) = Pieces * (Len(sent[c]) - Len(Answers(c)))
                        /\ \A i \in DOMAIN Answers(c) :
                              Answers(c)[i] = IF sent[c][i] THEN OkResponse(c, i)
                                              ELSE ErrorResponse
      BY DEF AlignedAnswered
    <2>1. Answers(c) \in Seq(Response) /\ ClientInv(c)
      BY AnswersType DEF IInv
    <2>2. DOMAIN Answers(c) = 1..Len(Answers(c))
      BY <2>1
    <2> QED BY <2>1, <2>2 DEF ClientInv, AnswersPlaced, StreamPlaced
  <1> QED BY <1>1, Invariance, PTL

==============================================================================

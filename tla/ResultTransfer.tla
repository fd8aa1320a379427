--------------------------- MODULE ResultTransfer ---------------------------
(***************************************************************************)
(* The results of a session, from the worker that computed them to two     *)
(* files of the server: sentResult of src/net/client.h and the threads of  *)
(* src/net/server.cpp, over one TCP connection for each result.            *)
(*                                                                         *)
(* A result is a stream of bytes: name, size of the TWAP orders, TWAP      *)
(* orders, size of the positions, positions.  A byte is known by its       *)
(* position.  The stream has no other framing: recv returns what is there, *)
(* and the two loops over data ask again, but the three headers do not.    *)
(***************************************************************************)
EXTENDS Common, FiniteSets, FiniteSetsExt

CONSTANTS
  Worker,
  Days,              \* Days[w]: the days whose results w sends
  NameLen, SizeLen,  \* bytes of a name, 12, and of a size, 8
  TwapLen,           \* TwapLen[w]: bytes of the TWAP orders of w
  PnlLen,            \* bytes of the positions
  BUFFER_SIZE,
  Unflushed,         \* bytes an ofstream holds back
  Window,            \* bytes the network holds that the server has not read
  MaxFds,            \* sockets the client process may have open
  MaxFaults,         \* bound: failures of a connection, a file, the server, and headers in pieces
  Garbage,           \* sizes read from memory that was not initialised
  Garbled            \* a file name that is no result's

Result == UNION {{w} \X (1..Days[w]) : w \in Worker}

TwapSizeAt == NameLen
TwapAt     == TwapSizeAt + SizeLen
PnlSizeAt(r) == TwapAt + TwapLen[r[1]]
PnlAt(r)     == PnlSizeAt(r) + SizeLen
End(r)       == PnlAt(r) + PnlLen

\* Headers and the positions are never empty; there may be no TWAP orders.
ASSUME StreamAssumption ==
  /\ NameLen \in Nat \ {0} /\ SizeLen \in Nat \ {0} /\ PnlLen \in Nat \ {0}
  /\ TwapLen \in [Worker -> Nat] /\ Days \in [Worker -> Nat]
  /\ BUFFER_SIZE \in Nat \ {0} /\ Unflushed \in Nat
  /\ Garbage \subseteq Int /\ Garbled \notin Result

ASSUME BoundsAssumption ==
  IsFiniteSet(Worker) /\ Window \in Nat /\ MaxFds \in Nat /\ MaxFaults \in Nat

VARIABLES
  \* sentResult, called by each worker at the end of each day
  cpc, today,
  sockets,           \* the results whose socket is open in the client process
  noSocket,          \* the results for which there was no socket
  clientUp,
  \* the connection of each result
  conn, sent, read,
  \* handleClient
  serverUp, hpc, fileName, dataSize, totalRecSize,
  file,              \* file[k][n]: the file of kind k and name n
  \* History: what went wrong with a result, and whether a header came in pieces.
  faults, spoilt, split

client  == <<cpc, today, sockets, noSocket, clientUp>>
network == <<conn, sent, read>>
handler == <<hpc, fileName, dataSize, totalRecSize>>
history == <<faults, spoilt, split>>
vars    == <<client, network, serverUp, handler, file, history>>

Kind  == {"twap", "pnl"}
Names == Result \cup {Garbled}

\* What a file holds: len bytes of the stream of a result, from a position on.
NoFile == [of |-> Garbled, from |-> 0, len |-> 0]

Init ==
  /\ cpc = [w \in Worker |-> "ready"] /\ today = [w \in Worker |-> 1]
  /\ sockets = {} /\ noSocket = {} /\ clientUp = TRUE
  /\ conn = [r \in Result |-> "none"]
  /\ sent = [r \in Result |-> 0] /\ read = [r \in Result |-> 0]
  /\ serverUp = TRUE
  /\ hpc = [r \in Result |-> "none"] /\ fileName = [r \in Result |-> Garbled]
  /\ dataSize = [r \in Result |-> 0] /\ totalRecSize = [r \in Result |-> 0]
  /\ file = [k \in Kind |-> [n \in Names |-> NoFile]]
  /\ faults = 0 /\ spoilt = {} /\ split = FALSE

Faulty == faults < MaxFaults /\ faults' = faults + 1

-----------------------------------------------------------------------------
(* sentResult                                                              *)

Current(w) == <<w, today[w]>>

\* The call returns, and onComplete takes the result for sent whatever happened.
Return(w) == /\ today' = [today EXCEPT ![w] = @ + 1]
             /\ cpc' = [cpc EXCEPT ![w] = "ready"]

Socket(w) ==
  /\ cpc[w] = "ready" /\ today[w] <= Days[w]
  /\ Cardinality(sockets) < MaxFds
  /\ sockets' = sockets \cup {Current(w)}
  /\ cpc' = [cpc EXCEPT ![w] = "connect"]
  /\ UNCHANGED <<today, noSocket, clientUp, network, serverUp, handler, file, history>>

SocketFails(w) ==
  /\ cpc[w] = "ready" /\ today[w] <= Days[w]
  /\ Cardinality(sockets) = MaxFds
  /\ noSocket' = noSocket \cup {Current(w)}
  /\ Return(w)
  /\ UNCHANGED <<sockets, clientUp, network, serverUp, handler, file, history>>

Connect(w) ==
  /\ cpc[w] = "connect" /\ serverUp
  /\ conn' = [conn EXCEPT ![Current(w)] = "open"]
  /\ cpc' = [cpc EXCEPT ![w] = "send"]
  /\ UNCHANGED <<today, sockets, noSocket, clientUp, sent, read, serverUp, handler, file, history>>

ConnectFailsOpen(w) ==                    \* mutant: the socket is not closed
  /\ cpc[w] = "connect"
  /\ IF serverUp THEN Faulty ELSE UNCHANGED faults
  /\ spoilt' = spoilt \cup {Current(w)}
  /\ Return(w)
  /\ UNCHANGED <<sockets, noSocket, clientUp, network, serverUp, handler, file, split>>

ConnectFails(w) ==
  /\ cpc[w] = "connect"
  /\ IF serverUp THEN Faulty ELSE UNCHANGED faults
  /\ spoilt' = spoilt \cup {Current(w)}
  /\ sockets' = sockets \ {Current(w)}
  /\ Return(w)
  /\ UNCHANGED <<noSocket, clientUp, network, serverUp, handler, file, split>>

\* Where each of the five calls of send ends.
Sends(r) == {TwapSizeAt, TwapAt, PnlSizeAt(r), PnlAt(r), End(r)}

\* A send goes on when the network has room.  The socket of a result that was sent
\* stays open.
Send(w) ==
  LET r    == Current(w)
      upTo == Min({Min({p \in Sends(r) : p > sent[r]}), read[r] + Window})
  IN
  /\ cpc[w] = "send" /\ conn[r] = "open" /\ upTo > sent[r]
  /\ sent' = [sent EXCEPT ![r] = upTo]
  /\ IF sent'[r] = End(r) THEN Return(w) ELSE UNCHANGED <<cpc, today>>
  /\ UNCHANGED <<sockets, noSocket, clientUp, conn, read, serverUp, handler, file, history>>

\* The other end is gone: send fails, or SIGPIPE ends the process and with it the
\* other workers.  A socket on which the name or the TWAP orders cannot be sent is
\* closed, one that fails for the positions is not; and a send that has part of its
\* data out does not fail, the next one does.
SendFails(w) ==
  LET r == Current(w) IN
  /\ cpc[w] = "send" /\ (conn[r] = "broken" \/ hpc[r] = "closed")
  /\ \/ /\ \/ /\ sent[r] < PnlSizeAt(r) \/ sent[r] = TwapAt
              /\ sockets' = sockets \ {r}
           \/ /\ sent[r] > TwapAt \/ sent[r] = PnlSizeAt(r)
              /\ UNCHANGED sockets
        /\ Return(w)
        /\ UNCHANGED clientUp
     \/ /\ clientUp' = FALSE
        /\ UNCHANGED <<cpc, today, sockets>>
  /\ UNCHANGED <<noSocket, network, serverUp, handler, file, history>>

-----------------------------------------------------------------------------
(* handleClient, a thread for each connection                              *)

Accept(r) ==
  /\ serverUp /\ conn[r] = "open" /\ hpc[r] = "none"
  /\ hpc' = [hpc EXCEPT ![r] = "name"]
  /\ UNCHANGED <<client, network, serverUp, fileName, dataSize, totalRecSize, file, history>>

RecvAll(r, n) ==                          \* mutant: as if recv waited for all it is asked for
  IF conn[r] = "open" THEN {n} ELSE {}

\* A call of recv for up to n bytes returns some that are there.
Recv(r, n) ==
  {k \in 1..n : conn[r] = "open" /\ read[r] + k <= sent[r]}

Take(r, k) == read' = [read EXCEPT ![r] = @ + k] /\ UNCHANGED <<conn, sent>>

\* A header that comes in pieces counts as a fault.
Pieces(short) == IF short THEN Faulty /\ split' = TRUE ELSE UNCHANGED <<faults, split>>

\* The bytes of a name that did not come are those of the stack, where an earlier
\* thread may have left the name of another result.
RecvName(r) ==
  /\ hpc[r] = "name"
  /\ \E k \in Recv(r, NameLen) :
       /\ Take(r, k)
       /\ Pieces(k < NameLen)
       /\ \E n \in Names :
            /\ k = NameLen => n = r
            /\ fileName' = [fileName EXCEPT ![r] = n]
  /\ hpc' = [hpc EXCEPT ![r] = "twapSize"]
  /\ UNCHANGED <<client, serverUp, dataSize, totalRecSize, file, spoilt>>

\* A size that comes whole and from its own position is the size sent.
RecvSize(r, at, size) ==
  \E k \in Recv(r, SizeLen) :
    /\ Take(r, k)
    /\ Pieces(k < SizeLen)
    /\ \E n \in {size} \cup Garbage :
         /\ k = SizeLen /\ read[r] = at => n = size
         /\ dataSize' = [dataSize EXCEPT ![r] = n]
    /\ UNCHANGED <<client, serverUp, fileName, file, spoilt>>

RecvTwapSize(r) ==
  /\ hpc[r] = "twapSize"
  /\ RecvSize(r, TwapSizeAt, TwapLen[r[1]])
  /\ totalRecSize' = [totalRecSize EXCEPT ![r] = 0]
  /\ hpc' = [hpc EXCEPT ![r] = "openTwap"]

RecvPnlSizeNoReset(r) ==                  \* mutant: totalRecSize is not reset
  /\ hpc[r] = "pnlSize"
  /\ RecvSize(r, PnlSizeAt(r), PnlLen)
  /\ hpc' = [hpc EXCEPT ![r] = "openPnl"]
  /\ UNCHANGED totalRecSize

RecvPnlSize(r) ==
  /\ hpc[r] = "pnlSize"
  /\ RecvSize(r, PnlSizeAt(r), PnlLen)
  /\ totalRecSize' = [totalRecSize EXCEPT ![r] = 0]
  /\ hpc' = [hpc EXCEPT ![r] = "openPnl"]

\* The ofstream truncates the file.
Open(r, kind) ==
  /\ file' = [file EXCEPT ![kind][fileName[r]] = [of |-> r, from |-> read[r], len |-> 0]]
  /\ hpc' = [hpc EXCEPT ![r] = kind]
  /\ UNCHANGED <<client, network, serverUp, fileName, dataSize, totalRecSize, history>>

OpenFile(r) == \/ hpc[r] = "openTwap" /\ Open(r, "twap")
               \/ hpc[r] = "openPnl" /\ Open(r, "pnl")

\* The thread returns and leaves its socket open.
OpenFails(r) ==
  /\ hpc[r] \in {"openTwap", "openPnl"} /\ Faulty
  /\ spoilt' = spoilt \cup {r}
  /\ hpc' = [hpc EXCEPT ![r] = "left"]
  /\ UNCHANGED <<client, network, serverUp, fileName, dataSize, totalRecSize, file, split>>

Receiving(r) == hpc[r] \in Kind

WriteTo(r, k) ==
  /\ totalRecSize' = [totalRecSize EXCEPT ![r] = @ + k]
  /\ file' = [file EXCEPT ![hpc[r]][fileName[r]] =
       [of |-> r, from |-> read[r] - totalRecSize[r], len |-> totalRecSize[r] + k]]

RecvDataUnbounded(r) ==                   \* mutant: asks for BUFFER_SIZE always
  /\ Receiving(r) /\ totalRecSize[r] < dataSize[r]
  /\ \E k \in Recv(r, BUFFER_SIZE) : Take(r, k) /\ WriteTo(r, k)
  /\ UNCHANGED <<client, serverUp, hpc, fileName, dataSize, history>>

RecvData(r) ==
  /\ Receiving(r) /\ totalRecSize[r] < dataSize[r]
  /\ \E k \in Recv(r, Lesser(BUFFER_SIZE, dataSize[r] - totalRecSize[r])) :
       Take(r, k) /\ WriteTo(r, k)
  /\ UNCHANGED <<client, serverUp, hpc, fileName, dataSize, history>>

CloseAfterFirst(r) ==                     \* mutant: one recv is taken for all of the data
  /\ Receiving(r) /\ (totalRecSize[r] > 0 \/ dataSize[r] = 0)
  /\ hpc' = [hpc EXCEPT ![r] = IF @ = "twap" THEN "pnlSize" ELSE "closed"]
  /\ UNCHANGED <<client, network, serverUp, fileName, dataSize, totalRecSize, file, history>>

\* All is received; after the second file the connection is closed.
CloseFile(r) ==
  /\ Receiving(r) /\ totalRecSize[r] >= dataSize[r]
  /\ hpc' = [hpc EXCEPT ![r] = IF @ = "twap" THEN "pnlSize" ELSE "closed"]
  /\ UNCHANGED <<client, network, serverUp, fileName, dataSize, totalRecSize, file, history>>

\* recv returns an error, or the end of the stream: the client's kernel has closed
\* the sockets of a process that ended.
RecvFails(r) ==
  /\ \/ hpc[r] \in {"name", "twapSize", "pnlSize"}
     \/ Receiving(r) /\ totalRecSize[r] < dataSize[r]
  /\ conn[r] = "broken" \/ (~clientUp /\ read[r] = sent[r])
  /\ hpc' = [hpc EXCEPT ![r] = "failed"]
  /\ UNCHANGED <<client, network, serverUp, fileName, dataSize, totalRecSize, file, history>>

-----------------------------------------------------------------------------
(* The network and the server process                                      *)

Break(r) ==
  /\ conn[r] = "open" /\ hpc[r] # "closed" /\ Faulty
  /\ conn' = [conn EXCEPT ![r] = "broken"]
  /\ spoilt' = spoilt \cup {r}
  /\ UNCHANGED <<client, sent, read, serverUp, handler, file, split>>

\* The threads end, and some bytes of a file that is open may not be written yet.
CrashServer ==
  LET alive       == {r \in Result : conn[r] = "open" /\ hpc[r] # "closed"}
      Writes(k,n) == LET r == file[k][n].of IN r # Garbled /\ hpc[r] = k /\ fileName[r] = n
  IN /\ serverUp /\ Faulty
     /\ serverUp' = FALSE
     /\ conn' = [r \in Result |-> IF r \in alive THEN "broken" ELSE conn[r]]
     /\ hpc' = [r \in Result |-> IF hpc[r] \in {"none", "closed"} THEN hpc[r] ELSE "failed"]
     /\ \E lost \in [{r \in Result : Receiving(r)} -> 0..Unflushed] :
          file' = [k \in Kind |-> [n \in Names |->
            IF Writes(k, n)
              THEN [file[k][n] EXCEPT !.len = Greater(0, @ - lost[file[k][n].of])]
              ELSE file[k][n]]]
     /\ spoilt' = spoilt \cup alive
     /\ UNCHANGED <<client, sent, read, fileName, dataSize, totalRecSize, split>>

StartServer ==
  /\ ~serverUp /\ serverUp' = TRUE
  /\ UNCHANGED <<client, network, handler, file, history>>

-----------------------------------------------------------------------------

Client(w) == /\ clientUp
             /\ \/ Socket(w) \/ SocketFails(w) \/ Connect(w) \/ ConnectFails(w)
                \/ Send(w) \/ SendFails(w)

HandleClient(r) == \/ RecvName(r) \/ RecvTwapSize(r) \/ RecvPnlSize(r) \/ OpenFile(r)
                   \/ RecvData(r) \/ CloseFile(r) \/ RecvFails(r)

Next == \/ \E w \in Worker : Client(w)
        \/ \E r \in Result : Accept(r) \/ HandleClient(r)
        \/ \E r \in Result : OpenFails(r) \/ Break(r)
        \/ CrashServer \/ StartServer

Spec == Init /\ [][Next]_vars

Threads == (\E w \in Worker : Client(w)) \/ \E r \in Result : Accept(r) \/ HandleClient(r)

\* Some thread that can run does.  Each does a bounded number of steps, so that all
\* get their turn; the server need not be started again.
FairSpec == Spec /\ WF_vars(Threads)

-----------------------------------------------------------------------------
(* Properties.                                                             *)

TypeOK ==
  /\ cpc \in [Worker -> {"ready", "connect", "send"}] /\ \A w \in Worker : today[w] \in 1..Days[w] + 1
  /\ sockets \subseteq Result /\ noSocket \subseteq Result /\ clientUp \in BOOLEAN
  /\ conn \in [Result -> {"none", "open", "broken"}]
  /\ \A r \in Result : read[r] \in 0..sent[r] /\ sent[r] \in 0..End(r)
  /\ hpc \in [Result -> Kind \cup {"none", "name", "twapSize", "openTwap", "pnlSize", "openPnl",
                                     "closed", "left", "failed"}]
  /\ fileName \in [Result -> Names]
  /\ serverUp \in BOOLEAN /\ split \in BOOLEAN /\ faults \in 0..MaxFaults /\ spoilt \subseteq Result

Whole(r) == /\ file["twap"][r] = [of |-> r, from |-> TwapAt, len |-> TwapLen[r[1]]]
            /\ file["pnl"][r] = [of |-> r, from |-> PnlAt(r), len |-> PnlLen]

Exists(k, r) == file[k][r].of # Garbled

\* As long as no header comes in pieces, a file holds the first bytes of what was
\* sent for it, all of them when handleClient has closed the connection, whatever
\* the network does to the data and wherever the server stops (server.cpp:45-86).
StoredIsSent ==
  ~split => \A r \in Result :
    /\ Exists("twap", r) => /\ file["twap"][r].of = r /\ file["twap"][r].from = TwapAt
                            /\ file["twap"][r].len <= TwapLen[r[1]]
    /\ Exists("pnl", r)  => /\ file["pnl"][r].of = r /\ file["pnl"][r].from = PnlAt(r)
                            /\ file["pnl"][r].len <= PnlLen
    /\ hpc[r] = "closed" => Whole(r)

\* Then, also, the positions of a session are never without all of its TWAP orders,
\* though nothing else tells a file that was cut short (server.cpp:55, 67).
TwapBeforePnl ==
  ~split => \A r \in Result :
    Exists("pnl", r) => file["twap"][r].len = TwapLen[r[1]]

\* An attempt that fails before any TWAP order is sent gives its socket back; one that
\* gets further, whether it succeeds or fails later, keeps it for ever.  So when there
\* is no socket for a result, all but those in the hands of the other workers are of
\* attempts that got that far (client.h:19, 28-32, 38-66).
SocketsRunOut ==
  /\ \A r \in sockets : r # Current(r[1]) => sent[r] >= TwapAt
  /\ noSocket # {} =>
       Cardinality({r \in sockets : sent[r] >= TwapAt}) > MaxFds - Cardinality(Worker)

\* The result of a worker that waits in send, for data that nobody will read.
Stalled(r) == hpc[r] = "left" /\ cpc[r[1]] = "send" /\ Current(r[1]) = r

\* Every result is stored whole, unless its own connection failed, a header came in
\* pieces, there was no socket for it, its worker waits for ever on an earlier
\* result, or the failure of another connection ended the process.
EveryResultStored ==
  \A r \in Result :
    <>(\/ Whole(r) \/ r \in spoilt \/ split \/ r \in noSocket
       \/ \E d \in 1..r[2] : Stalled(<<r[1], d>>)
       \/ (~clientUp /\ spoilt # {}))

=============================================================================

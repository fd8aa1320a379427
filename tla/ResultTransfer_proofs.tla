------------------------ MODULE ResultTransfer_proofs ------------------------
(***************************************************************************)
(* What the server stores is what was sent, for results of any sizes, any  *)
(* number of connections at once and any failures, as long as no header    *)
(* comes in pieces; and a client is short of sockets only for those that   *)
(* it left open after sending.                                             *)
(***************************************************************************)
EXTENDS ResultTransfer, FiniteSetTheorems, TLAPS

Held == [of : Names, from : Int, len : Int]

Types ==
  /\ hpc \in [Result -> Kind \cup {"none", "name", "twapSize", "openTwap", "pnlSize", "openPnl",
                                   "closed", "left", "failed"}]
  /\ read \in [Result -> Int] /\ totalRecSize \in [Result -> Int]
  /\ fileName \in [Result -> Names] /\ dataSize \in [Result -> Int]
  /\ file \in [Kind -> [Names -> Held]]
  /\ split \in BOOLEAN

\* Where a handler is in the stream tells what it holds and what it has stored.
Twaps(r) == TwapLen[r[1]]

Place(r) ==
  /\ hpc[r] \in {"none", "name"} => read[r] = 0
  /\ hpc[r] = "twapSize" => read[r] = TwapSizeAt
  /\ hpc[r] = "openTwap" => read[r] = TwapAt /\ dataSize[r] = Twaps(r) /\ totalRecSize[r] = 0
  /\ hpc[r] = "twap"     => read[r] = TwapAt + totalRecSize[r] /\ dataSize[r] = Twaps(r)
  /\ hpc[r] = "pnlSize"  => read[r] = PnlSizeAt(r)
  /\ hpc[r] = "openPnl"  => read[r] = PnlAt(r) /\ dataSize[r] = PnlLen /\ totalRecSize[r] = 0
  /\ hpc[r] = "pnl"      => read[r] = PnlAt(r) + totalRecSize[r] /\ dataSize[r] = PnlLen

OwnName(r) ==
  hpc[r] \in Kind \cup {"twapSize", "openTwap", "pnlSize", "openPnl"} => fileName[r] = r

Prefix(r, k, at, size) ==
  Exists(k, r) => /\ file[k][r].of = r /\ file[k][r].from = at /\ file[k][r].len \in 0..size

TwapWhole(r) == file["twap"][r] = [of |-> r, from |-> TwapAt, len |-> Twaps(r)]

Stored(r) ==
  /\ Prefix(r, "twap", TwapAt, Twaps(r)) /\ Prefix(r, "pnl", PnlAt(r), PnlLen)
  /\ hpc[r] = "twap" => /\ file["twap"][r] = [of |-> r, from |-> TwapAt, len |-> totalRecSize[r]]
                        /\ totalRecSize[r] \in 0..Twaps(r)
  /\ hpc[r] = "pnl" => /\ file["pnl"][r] = [of |-> r, from |-> PnlAt(r), len |-> totalRecSize[r]]
                       /\ totalRecSize[r] \in 0..PnlLen
  /\ hpc[r] \in {"none", "name", "twapSize", "openTwap", "twap"} => ~Exists("pnl", r)
  /\ hpc[r] \in {"pnlSize", "openPnl", "pnl", "closed"} \/ Exists("pnl", r) => TwapWhole(r)
  /\ hpc[r] = "closed" => Whole(r)

Sound(r) == Place(r) /\ OwnName(r) /\ Stored(r)

StoreInv == Types /\ (~split => \A r \in Result : Sound(r))

\* All that Sound says of a result.
Local(r) ==
  <<hpc[r], read[r], totalRecSize[r], fileName[r], dataSize[r], file["twap"][r], file["pnl"][r]>>

LEMMA Sizes ==
  ASSUME NEW r \in Result
  PROVE  /\ Twaps(r) \in Nat /\ TwapSizeAt \in Nat /\ TwapAt \in Nat
         /\ PnlSizeAt(r) \in Nat /\ PnlAt(r) \in Nat
         /\ TwapAt = TwapSizeAt + SizeLen /\ PnlSizeAt(r) = TwapAt + Twaps(r)
         /\ PnlAt(r) = PnlSizeAt(r) + SizeLen
         /\ TwapSizeAt = NameLen
         /\ NameLen \in Nat \ {0} /\ SizeLen \in Nat \ {0} /\ PnlLen \in Nat \ {0}
         /\ BUFFER_SIZE \in Nat \ {0}
         /\ r \in Names /\ r # Garbled
<1>1. r[1] \in Worker
  BY DEF Result
<1>2. QED BY <1>1, StreamAssumption DEF Twaps, TwapSizeAt, TwapAt, PnlSizeAt, PnlAt, Names

LEMMA StoreInit == Init => StoreInv
<1> SUFFICES ASSUME Init PROVE StoreInv
  OBVIOUS
<1>1. Types
  <2>1. NoFile \in Held
    BY DEF NoFile, Held, Names
  <2>2. file \in [Kind -> [Names -> Held]]
    BY <2>1 DEF Init
  <2>3. fileName \in [Result -> Names]
    BY DEF Init, Names
  <2>4. split \in BOOLEAN
    BY Zenon DEF Init
  <2>5. QED BY <2>2, <2>3, <2>4 DEF Init, Types
<1>2. ASSUME NEW r \in Result PROVE Sound(r)
  BY Sizes DEF Init, Sound, Place, OwnName, Stored, Prefix, Exists, Kind, NoFile, Whole
<1>3. QED BY <1>1, <1>2 DEF StoreInv

\* A step that leaves alone what the server keeps.
LEMMA Untouched ==
  ASSUME StoreInv, UNCHANGED <<read, handler, file, split>>
  PROVE  StoreInv'
BY DEF StoreInv, Types, Sound, Place, OwnName, Stored, Prefix, Exists, TwapWhole, Whole, handler

LEMMA LocalEnough ==
  ASSUME NEW r \in Result, Sound(r), UNCHANGED Local(r)
  PROVE  Sound(r)'
BY DEF Local, Sound, Place, OwnName, Stored, Prefix, Exists, TwapWhole, Whole

\* A step of one handler.
LEMMA OneHandler ==
  ASSUME StoreInv, NEW r \in Result, Types',
         split => split', ~split' => Sound(r)',
         ~split' => \A q \in Result \ {r} : UNCHANGED Local(q)
  PROVE  StoreInv'
BY LocalEnough DEF StoreInv

\* A handler writes to the file of its own result.
LEMMA OwnFile ==
  ASSUME StoreInv, ~split, NEW r \in Result, NEW k \in Kind, NEW f \in Held,
         fileName[r] = r, file' = [file EXCEPT ![k][fileName[r]] = f]
  PROVE  /\ file'[k][r] = f /\ \A j \in Kind \ {k} : file'[j] = file[j]
         /\ \A q \in Result \ {r}, j \in Kind : file'[j][q] = file[j][q]
BY Sizes DEF StoreInv, Types, Names

LEMMA ClientStep ==
  ASSUME StoreInv, NEW w \in Worker, Client(w)
  PROVE  StoreInv'
<1>1. UNCHANGED <<read, handler, file, split>>
  BY DEF Client, Socket, SocketFails, Connect, ConnectFails, Send, SendFails, Faulty, network,
         history
<1>2. QED BY <1>1, Untouched

LEMMA AcceptStep ==
  ASSUME StoreInv, NEW r \in Result, Accept(r)
  PROVE  StoreInv'
<1>1. Types'
  BY DEF Accept, StoreInv, Types, network, history
<1>2. split' = split /\ \A q \in Result \ {r} : UNCHANGED Local(q)
  BY DEF Accept, StoreInv, Types, Local, network, history
<1>3. ASSUME ~split PROVE Sound(r)'
  BY <1>3 DEF Accept, StoreInv, Types, Sound, Place, OwnName, Stored, Prefix, Exists, TwapWhole,
         Whole, network, history, Kind
<1>4. QED BY <1>1, <1>2, <1>3, OneHandler

LEMMA RecvNameStep ==
  ASSUME StoreInv, NEW r \in Result, RecvName(r)
  PROVE  StoreInv'
<1>1. PICK k \in Recv(r, NameLen) :
        /\ Take(r, k) /\ Pieces(k < NameLen)
        /\ \E n \in Names : /\ k = NameLen => n = r
                            /\ fileName' = [fileName EXCEPT ![r] = n]
  BY DEF RecvName
<1>2. k \in 1..NameLen /\ NameLen \in Nat
  BY Sizes DEF Recv
<1>3. Types'
  <2>1. split' \in BOOLEAN
    BY <1>1 DEF Pieces, StoreInv, Types
  <2>2. read' \in [Result -> Int] /\ fileName' \in [Result -> Names]
    BY <1>1, <1>2 DEF Take, StoreInv, Types
  <2>3. QED BY <2>1, <2>2 DEF RecvName, StoreInv, Types
<1>4. (split => split') /\ \A q \in Result \ {r} : UNCHANGED Local(q)
  BY <1>1, <1>2 DEF RecvName, StoreInv, Types, Local, Take, Pieces
<1>5. ASSUME ~split' PROVE Sound(r)'
  <2>1. k = NameLen /\ ~split
    BY <1>1, <1>2, <1>5 DEF Pieces, StoreInv, Types
  <2>2. fileName'[r] = r /\ read'[r] = TwapSizeAt /\ hpc'[r] = "twapSize" /\ file' = file
    BY <1>1, <1>2, <2>1, Sizes DEF RecvName, Take, StoreInv, Types, Sound, Place
  <2>3. QED BY <2>1, <2>2 DEF RecvName, StoreInv, Sound, Place, OwnName, Stored, Prefix, Exists,
           TwapWhole, Kind
<1>6. QED BY <1>3, <1>4, <1>5, OneHandler

\* A size that comes in one piece is the one that was sent.
LEMMA SizeReceived ==
  ASSUME StoreInv, NEW r \in Result, NEW at, NEW size \in Int, RecvSize(r, at, size),
         ~split => read[r] = at
  PROVE  /\ read' \in [Result -> Int] /\ dataSize' \in [Result -> Int] /\ split' \in BOOLEAN
         /\ split => split'
         /\ \A q \in Result \ {r} : read'[q] = read[q] /\ dataSize'[q] = dataSize[q]
         /\ ~split' => ~split /\ read'[r] = at + SizeLen /\ dataSize'[r] = size
<1>1. PICK k \in Recv(r, SizeLen) :
        /\ Take(r, k) /\ Pieces(k < SizeLen)
        /\ \E n \in {size} \cup Garbage : /\ k = SizeLen /\ read[r] = at => n = size
                                          /\ dataSize' = [dataSize EXCEPT ![r] = n]
  BY DEF RecvSize
<1>2. k \in 1..SizeLen /\ SizeLen \in Nat
  BY Sizes DEF Recv
<1>3. /\ read' \in [Result -> Int] /\ read'[r] = read[r] + k
      /\ \A q \in Result \ {r} : read'[q] = read[q]
  BY <1>1, <1>2 DEF StoreInv, Types, Take
<1>4. /\ dataSize' \in [Result -> Int] /\ \A q \in Result \ {r} : dataSize'[q] = dataSize[q]
      /\ k = SizeLen /\ read[r] = at => dataSize'[r] = size
  BY <1>1, StreamAssumption DEF StoreInv, Types
<1>5. split' \in BOOLEAN /\ (split => split') /\ (~split' => ~split /\ k = SizeLen)
  <2>1. CASE k < SizeLen
    BY <1>1, <2>1, Zenon DEF Pieces
  <2>2. CASE ~(k < SizeLen)
    <3>1. k = SizeLen
      BY <1>2, <2>2
    <3>2. QED BY <1>1, <2>2, <3>1, Zenon DEF StoreInv, Types, Pieces
  <2>3. QED BY <2>1, <2>2
<1>6. QED BY <1>3, <1>4, <1>5

LEMMA RecvTwapSizeStep ==
  ASSUME StoreInv, NEW r \in Result, RecvTwapSize(r)
  PROVE  StoreInv'
<1>1. ~split => read[r] = TwapSizeAt
  BY DEF RecvTwapSize, StoreInv, Sound, Place
<1>2. Twaps(r) \in Int
  BY Sizes
<1>3. RecvSize(r, TwapSizeAt, Twaps(r)) /\ UNCHANGED <<fileName, file>>
  BY DEF RecvTwapSize, RecvSize, Twaps
<1>4. Types'
  BY <1>1, <1>2, <1>3, SizeReceived DEF RecvTwapSize, StoreInv, Types
<1>5. (split => split') /\ \A q \in Result \ {r} : UNCHANGED Local(q)
  BY <1>1, <1>2, <1>3, SizeReceived DEF RecvTwapSize, StoreInv, Types, Local
<1>6. ASSUME ~split' PROVE Sound(r)'
  <2>1. ~split /\ read'[r] = TwapAt /\ dataSize'[r] = Twaps(r)
    BY <1>1, <1>2, <1>3, <1>6, SizeReceived DEF TwapAt
  <2>2. hpc[r] = "twapSize" /\ hpc'[r] = "openTwap" /\ totalRecSize'[r] = 0
    BY DEF RecvTwapSize, StoreInv, Types
  <2>3. QED BY <1>3, <2>1, <2>2 DEF StoreInv, Sound, Place, OwnName, Stored, Prefix, Exists,
           TwapWhole, Kind
<1>7. QED BY <1>4, <1>5, <1>6, OneHandler

LEMMA RecvPnlSizeStep ==
  ASSUME StoreInv, NEW r \in Result, RecvPnlSize(r)
  PROVE  StoreInv'
<1>1. ~split => read[r] = PnlSizeAt(r)
  BY DEF RecvPnlSize, StoreInv, Sound, Place
<1>2. PnlLen \in Int
  BY Sizes
<1>3. RecvSize(r, PnlSizeAt(r), PnlLen) /\ UNCHANGED <<fileName, file>>
  BY DEF RecvPnlSize, RecvSize
<1>4. Types'
  BY <1>1, <1>2, <1>3, SizeReceived DEF RecvPnlSize, StoreInv, Types
<1>5. (split => split') /\ \A q \in Result \ {r} : UNCHANGED Local(q)
  BY <1>1, <1>2, <1>3, SizeReceived DEF RecvPnlSize, StoreInv, Types, Local
<1>6. ASSUME ~split' PROVE Sound(r)'
  <2>1. ~split /\ read'[r] = PnlAt(r) /\ dataSize'[r] = PnlLen
    BY <1>1, <1>2, <1>3, <1>6, SizeReceived DEF PnlAt
  <2>2. hpc[r] = "pnlSize" /\ hpc'[r] = "openPnl" /\ totalRecSize'[r] = 0
    BY DEF RecvPnlSize, StoreInv, Types
  <2>3. QED BY <1>3, <2>1, <2>2 DEF StoreInv, Sound, Place, OwnName, Stored, Prefix, Exists,
           TwapWhole, Kind
<1>7. QED BY <1>4, <1>5, <1>6, OneHandler

LEMMA OpenFileStep ==
  ASSUME StoreInv, NEW r \in Result, OpenFile(r)
  PROVE  StoreInv'
<1>1. PICK k \in Kind : /\ Open(r, k)
                        /\ hpc[r] = IF k = "twap" THEN "openTwap" ELSE "openPnl"
  BY DEF OpenFile, Kind
<1> DEFINE f == [of |-> r, from |-> read[r], len |-> 0]
<1>2. f \in Held
  BY Sizes DEF Held, StoreInv, Types
<1>3. Types'
  <2>1. file' \in [Kind -> [Names -> Held]]
    BY <1>1, <1>2 DEF Open, StoreInv, Types
  <2>2. QED BY <1>1, <2>1 DEF Open, StoreInv, Types, Kind, network, history
<1>4. ASSUME ~split
      PROVE  /\ file'[k][r] = f /\ \A j \in Kind \ {k} : file'[j] = file[j]
             /\ \A q \in Result \ {r}, j \in Kind : file'[j][q] = file[j][q]
  <2>1. fileName[r] = r
    BY <1>1, <1>4 DEF StoreInv, Sound, OwnName, Kind
  <2> HIDE DEF f
  <2>2. file' = [file EXCEPT ![k][fileName[r]] = f]
    BY <1>1 DEF Open, f
  <2>3. QED BY <1>2, <1>4, <2>1, <2>2, OwnFile
<1>5. split' = split
  BY <1>1 DEF Open, history
<1>6. ASSUME ~split PROVE \A q \in Result \ {r} : UNCHANGED Local(q)
  BY <1>1, <1>4, <1>6 DEF Open, StoreInv, Types, Local, network, Kind
<1>7. ASSUME ~split PROVE Sound(r)'
  <2>1. UNCHANGED <<read, totalRecSize, dataSize, fileName>> /\ hpc'[r] = k
    BY <1>1 DEF Open, StoreInv, Types, network
  <2>2. CASE k = "twap"
    <3>1. Sound(r) /\ file'["twap"][r] = f /\ file'["pnl"] = file["pnl"]
      BY <1>4, <1>7, <2>2 DEF StoreInv, Kind
    <3>2. Place(r)' /\ OwnName(r)'
      BY <1>1, <2>1, <2>2, <3>1, Sizes DEF Sound, Place, OwnName, Kind
    <3>3. Stored(r)'
      BY <1>1, <2>1, <2>2, <3>1, Sizes DEF Sound, Place, Stored, Prefix, Exists, TwapWhole
    <3>4. QED BY <3>2, <3>3 DEF Sound
  <2>3. CASE k = "pnl"
    <3>1. Sound(r) /\ file'["pnl"][r] = f /\ file'["twap"] = file["twap"]
      BY <1>4, <1>7, <2>3 DEF StoreInv, Kind
    <3>2. Place(r)' /\ OwnName(r)'
      BY <1>1, <2>1, <2>3, <3>1, Sizes DEF Sound, Place, OwnName, Kind
    <3>3. Stored(r)'
      BY <1>1, <2>1, <2>3, <3>1, Sizes DEF Sound, Place, Stored, Prefix, Exists, TwapWhole
    <3>4. QED BY <3>2, <3>3 DEF Sound
  <2>4. QED BY <2>2, <2>3 DEF Kind
<1>8. QED BY <1>3, <1>5, <1>6, <1>7, OneHandler

LEMMA RecvDataStep ==
  ASSUME StoreInv, NEW r \in Result, RecvData(r)
  PROVE  StoreInv'
<1>1. PICK n \in Recv(r, Lesser(BUFFER_SIZE, dataSize[r] - totalRecSize[r])) :
        Take(r, n) /\ WriteTo(r, n)
  BY DEF RecvData
<1>2. hpc[r] \in Kind /\ n \in Int /\ n >= 1 /\ totalRecSize[r] + n <= dataSize[r]
  BY <1>1, Sizes DEF RecvData, Receiving, Recv, Lesser, StoreInv, Types
<1> DEFINE f == [of |-> r, from |-> read[r] - totalRecSize[r], len |-> totalRecSize[r] + n]
<1>3. f \in Held
  BY <1>2, Sizes DEF Held, StoreInv, Types
<1>4. Types'
  <2>1. file' \in [Kind -> [Names -> Held]]
    BY <1>1, <1>3 DEF WriteTo, StoreInv, Types
  <2>2. QED BY <1>1, <1>2, <2>1 DEF RecvData, Take, WriteTo, StoreInv, Types, history
<1>5. ASSUME ~split
      PROVE  /\ file'[hpc[r]][r] = f /\ \A j \in Kind \ {hpc[r]} : file'[j] = file[j]
             /\ \A q \in Result \ {r}, j \in Kind : file'[j][q] = file[j][q]
  <2>1. fileName[r] = r
    BY <1>2, <1>5 DEF StoreInv, Sound, OwnName
  <2> HIDE DEF f
  <2>2. file' = [file EXCEPT ![hpc[r]][fileName[r]] = f]
    BY <1>1 DEF WriteTo, f
  <2>3. QED BY <1>2, <1>3, <1>5, <2>1, <2>2, OwnFile
<1>6. split' = split
  BY DEF RecvData, history
<1>7. ASSUME ~split PROVE \A q \in Result \ {r} : UNCHANGED Local(q)
  BY <1>1, <1>2, <1>5, <1>7 DEF RecvData, Take, WriteTo, StoreInv, Types, Local, Kind
<1>8. ASSUME ~split PROVE Sound(r)'
  <2>1. /\ UNCHANGED <<hpc, dataSize, fileName>>
        /\ read'[r] = read[r] + n /\ totalRecSize'[r] = totalRecSize[r] + n
    BY <1>1, <1>2 DEF RecvData, Take, WriteTo, StoreInv, Types
  <2>0. read[r] \in Int /\ totalRecSize[r] \in Int /\ dataSize[r] \in Int
    BY DEF StoreInv, Types
  <2>2. CASE hpc[r] = "twap"
    <3>1. Sound(r) /\ file'["twap"][r] = f /\ file'["pnl"] = file["pnl"]
      BY <1>5, <1>8, <2>2 DEF StoreInv, Kind
    <3>2. Place(r)' /\ OwnName(r)'
      BY <1>2, <2>1, <2>0, <2>2, <3>1, Sizes DEF Sound, Place, OwnName
    <3>3. Stored(r)'
      BY <1>2, <2>1, <2>0, <2>2, <3>1, Sizes DEF Sound, Place, Stored, Prefix, Exists, TwapWhole
    <3>4. QED BY <3>2, <3>3 DEF Sound
  <2>3. CASE hpc[r] = "pnl"
    <3>1. Sound(r) /\ file'["pnl"][r] = f /\ file'["twap"] = file["twap"]
      BY <1>5, <1>8, <2>3 DEF StoreInv, Kind
    <3>2. Place(r)' /\ OwnName(r)'
      BY <1>2, <2>1, <2>0, <2>3, <3>1, Sizes DEF Sound, Place, OwnName
    <3>3. Stored(r)'
      BY <1>2, <2>1, <2>0, <2>3, <3>1, Sizes DEF Sound, Place, Stored, Prefix, Exists, TwapWhole
    <3>4. QED BY <3>2, <3>3 DEF Sound
  <2>4. QED BY <1>2, <2>2, <2>3 DEF Kind
<1>9. QED BY <1>4, <1>6, <1>7, <1>8, OneHandler

LEMMA CloseFileStep ==
  ASSUME StoreInv, NEW r \in Result, CloseFile(r)
  PROVE  StoreInv'
<1>1. UNCHANGED <<read, totalRecSize, dataSize, fileName, file, split>>
  BY DEF CloseFile, network, history
<1>2. Types'
  BY <1>1 DEF CloseFile, StoreInv, Types
<1>3. \A q \in Result \ {r} : UNCHANGED Local(q)
  BY <1>1 DEF CloseFile, StoreInv, Types, Local
<1>4. ASSUME ~split PROVE Sound(r)'
  <2>1. CASE hpc[r] = "twap"
    <3>1. hpc'[r] = "pnlSize" /\ totalRecSize[r] >= dataSize[r]
      BY <2>1 DEF CloseFile, StoreInv, Types
    <3>2. totalRecSize[r] = Twaps(r)
      <4>1. Sound(r)
        BY <1>4 DEF StoreInv
      <4>2. dataSize[r] = Twaps(r) /\ totalRecSize[r] \in 0..Twaps(r)
        BY <2>1, <4>1 DEF Sound, Place, Stored
      <4>3. QED BY <3>1, <4>2, Sizes
    <3>3. Sound(r)
      BY <1>4 DEF StoreInv
    <3>4. Place(r)' /\ OwnName(r)'
      BY <1>1, <2>1, <3>1, <3>2, <3>3, Sizes DEF Sound, Place, OwnName, Kind
    <3>5. Stored(r)'
      BY <1>1, <2>1, <3>1, <3>2, <3>3, Sizes DEF Sound, Stored, Prefix, Exists, TwapWhole
    <3>6. QED BY <3>4, <3>5 DEF Sound
  <2>2. CASE hpc[r] = "pnl"
    <3>1. hpc'[r] = "closed" /\ totalRecSize[r] >= dataSize[r]
      BY <2>2 DEF CloseFile, StoreInv, Types
    <3>2. totalRecSize[r] = PnlLen
      <4>1. Sound(r)
        BY <1>4 DEF StoreInv
      <4>2. dataSize[r] = PnlLen /\ totalRecSize[r] \in 0..PnlLen
        BY <2>2, <4>1 DEF Sound, Place, Stored
      <4>3. QED BY <3>1, <4>2, Sizes
    <3>3. QED BY <1>1, <1>4, <2>2, <3>1, <3>2, Sizes DEF StoreInv, Sound, Place, OwnName, Stored,
             Prefix, Exists, TwapWhole, Whole, Twaps, Kind
  <2>3. QED BY <2>1, <2>2 DEF CloseFile, Receiving, Kind
<1>5. QED BY <1>1, <1>2, <1>3, <1>4, OneHandler

\* A handler that gives up leaves the files as they are.
LEMMA GivesUp ==
  ASSUME StoreInv, NEW r \in Result, NEW s \in {"left", "failed"},
         hpc' = [hpc EXCEPT ![r] = s],
         UNCHANGED <<read, totalRecSize, dataSize, fileName, file, split>>
  PROVE  StoreInv'
<1>1. Types'
  BY DEF StoreInv, Types
<1>2. \A q \in Result \ {r} : UNCHANGED Local(q)
  BY DEF StoreInv, Types, Local
<1>3. ASSUME ~split PROVE Sound(r)'
  BY <1>3 DEF StoreInv, Types, Sound, Place, OwnName, Stored, Prefix, Exists, TwapWhole, Kind
<1>4. QED BY <1>1, <1>2, <1>3, OneHandler

\* When the server ends, the files lose some of their ends, but not one that is closed.
LEMMA CrashStep ==
  ASSUME StoreInv, CrashServer
  PROVE  StoreInv'
<1> DEFINE Writes(k, n) == /\ file[k][n].of # Garbled /\ hpc[file[k][n].of] = k
                           /\ fileName[file[k][n].of] = n
<1>1. PICK lost \in [{r \in Result : Receiving(r)} -> 0..Unflushed] :
        file' = [k \in Kind |-> [n \in Names |->
          IF Writes(k, n)
            THEN [file[k][n] EXCEPT !.len = Greater(0, @ - lost[file[k][n].of])]
            ELSE file[k][n]]]
  BY DEF CrashServer
<1>2. /\ hpc' = [r \in Result |-> IF hpc[r] \in {"none", "closed"} THEN hpc[r] ELSE "failed"]
      /\ UNCHANGED <<read, fileName, dataSize, totalRecSize, split>>
  BY DEF CrashServer
<1>3. ASSUME NEW k \in Kind, NEW n \in Names
      PROVE  /\ file'[k][n] \in Held
             /\ file'[k][n].of = file[k][n].of /\ file'[k][n].from = file[k][n].from
             /\ file[k][n].len >= 0 => file'[k][n].len \in 0..file[k][n].len
             /\ ~Writes(k, n) => file'[k][n] = file[k][n]
  <2>1. file[k][n] \in Held
    BY DEF StoreInv, Types
  <2>2. CASE Writes(k, n)
    <3>1. file[k][n].of \in Result /\ Receiving(file[k][n].of)
      BY <2>1, <2>2 DEF Held, Names, Receiving
    <3>2. lost[file[k][n].of] \in Nat
      BY <1>1, <3>1, StreamAssumption
    <3>3. file'[k][n] = [file[k][n] EXCEPT !.len = Greater(0, @ - lost[file[k][n].of])]
      BY <1>1, <2>2
    <3>4. QED BY <2>1, <2>2, <3>2, <3>3 DEF Held, Greater
  <2>3. CASE ~Writes(k, n)
    BY <1>1, <2>1, <2>3 DEF Held
  <2>4. QED BY <2>2, <2>3
<1> HIDE DEF Writes
<1>4. Types'
  <2>1. file' = [k \in Kind |-> [n \in Names |-> file'[k][n]]]
    BY <1>1
  <2>2. file' \in [Kind -> [Names -> Held]]
    BY <1>3, <2>1
  <2>3. QED BY <1>2, <2>2 DEF StoreInv, Types
<1>5. ASSUME ~split, NEW r \in Result PROVE Sound(r)'
  <2>1. Sound(r) /\ r \in Names /\ Types
    BY <1>5, Sizes DEF StoreInv
  <2>2. hpc'[r] \in {"none", "closed", "failed"} /\ (hpc'[r] # "failed" => hpc'[r] = hpc[r])
    BY <1>2
  <2>3. Place(r)' /\ OwnName(r)'
    BY <1>2, <2>1, <2>2 DEF Sound, Place, OwnName, Kind
  <2>4. ASSUME NEW k \in Kind, NEW at, NEW size \in Nat, Prefix(r, k, at, size)
        PROVE  Prefix(r, k, at, size)'
    <3>1. file[k][r] \in Held
      BY <2>1 DEF Types
    <3>2. QED BY <1>3, <2>1, <2>4, <3>1 DEF Prefix, Exists, Held
  <2>5. Prefix(r, "twap", TwapAt, Twaps(r))' /\ Prefix(r, "pnl", PnlAt(r), PnlLen)'
    BY <2>1, <2>4, Sizes DEF Sound, Stored, Kind
  <2>6. ASSUME TwapWhole(r), hpc[r] # "twap" PROVE TwapWhole(r)'
    <3>1. ~Writes("twap", r)
      BY <2>6 DEF Writes, TwapWhole
    <3>2. QED BY <1>3, <2>1, <2>6, <3>1 DEF TwapWhole, Kind
  <2>7. ASSUME Whole(r), hpc[r] = "closed" PROVE Whole(r)'
    <3>1. ~Writes("twap", r) /\ ~Writes("pnl", r)
      BY <2>7 DEF Writes, Whole
    <3>2. QED BY <1>3, <2>1, <2>7, <3>1 DEF Whole, Kind
  <2>8. Exists("pnl", r)' <=> Exists("pnl", r)
    BY <1>3, <2>1 DEF Exists, Kind
  <2>9. QED BY <2>1, <2>2, <2>3, <2>5, <2>6, <2>7, <2>8 DEF Sound, Stored
<1>6. QED BY <1>2, <1>4, <1>5 DEF StoreInv

LEMMA StoreStep == StoreInv /\ [Next]_vars => StoreInv'
<1> SUFFICES ASSUME StoreInv, [Next]_vars PROVE StoreInv'
  OBVIOUS
<1>1. CASE \E w \in Worker : Client(w)
  BY <1>1, ClientStep
<1>2. ASSUME NEW r \in Result, HandleClient(r) PROVE StoreInv'
  <2>1. CASE RecvFails(r)
    BY <2>1, GivesUp DEF RecvFails, network, history
  <2>2. QED BY <1>2, <2>1, RecvNameStep, RecvTwapSizeStep, RecvPnlSizeStep, OpenFileStep,
              RecvDataStep, CloseFileStep DEF HandleClient
<1>3. ASSUME NEW r \in Result, Accept(r) \/ HandleClient(r) PROVE StoreInv'
  BY <1>2, <1>3, AcceptStep
<1>4. ASSUME NEW r \in Result, OpenFails(r) PROVE StoreInv'
  BY <1>4, GivesUp DEF OpenFails, network
<1>5. ASSUME NEW r \in Result, Break(r) PROVE StoreInv'
  BY <1>5, Untouched DEF Break
<1>6. CASE CrashServer
  BY <1>6, CrashStep
<1>7. CASE StartServer
  BY <1>7, Untouched DEF StartServer, network, history
<1>8. CASE UNCHANGED vars
  BY <1>8, Untouched DEF vars, network, history
<1>9. QED BY <1>1, <1>3, <1>4, <1>5, <1>6, <1>7, <1>8 DEF Next

\* What is stored under the name of a session is what the session sent, all of it
\* once handleClient is done, and otherwise its beginning.
THEOREM StoredCorrectly == Spec => []StoredIsSent
<1>1. StoreInv => StoredIsSent
  <2> SUFFICES ASSUME StoreInv, ~split, NEW r \in Result
               PROVE  /\ Prefix(r, "twap", TwapAt, Twaps(r)) /\ Prefix(r, "pnl", PnlAt(r), PnlLen)
                      /\ hpc[r] = "closed" => Whole(r)
    BY Sizes DEF StoredIsSent, Prefix, Twaps
  <2>1. QED BY DEF StoreInv, Sound, Stored
<1>2. QED BY StoreInit, StoreStep, <1>1, PTL DEF Spec

\* The positions of a session are stored only after all of its TWAP orders.
THEOREM TwapFirst == Spec => []TwapBeforePnl
<1>1. StoreInv => TwapBeforePnl
  <2> SUFFICES ASSUME StoreInv, ~split, NEW r \in Result, Exists("pnl", r)
               PROVE  file["twap"][r].len = TwapLen[r[1]]
    BY DEF TwapBeforePnl
  <2>1. TwapWhole(r)
    BY DEF StoreInv, Sound, Stored
  <2>2. QED BY <2>1 DEF TwapWhole, Twaps
<1>2. QED BY StoreInit, StoreStep, <1>1, PTL DEF Spec

-----------------------------------------------------------------------------
(* The sockets of the client.                                              *)

\* A socket that sentResult has returned from without closing it.
Left == {r \in sockets : r[2] < today[r[1]]}

SocketTypes ==
  /\ TypeOK
  /\ today \in [Worker -> Nat] /\ sent \in [Result -> Nat] /\ read \in [Result -> Nat]
  /\ IsFiniteSet(sockets)

\* A worker has at most the socket of its current result in its hands.
InHands ==
  /\ \A w \in Worker : cpc[w] # "ready" => today[w] <= Days[w]
  /\ \A r \in sockets : /\ r[2] <= today[r[1]]
                        /\ r[2] = today[r[1]] => cpc[r[1]] # "ready"
                        /\ r[2] < today[r[1]] => sent[r] >= TwapAt
  /\ \A r \in Result : r[2] >= today[r[1]] => sent[r] < End(r)

RunOut == noSocket # {} => Cardinality(Left) > MaxFds - Cardinality(Worker)

SocketInv == SocketTypes /\ InHands /\ RunOut

LEMMA ResultParts ==
  /\ \A r \in Result : r = <<r[1], r[2]>> /\ r[1] \in Worker /\ r[2] \in 1..Days[r[1]]
  /\ \A w \in Worker : Days[w] \in Nat /\ \A d \in 1..Days[w] : <<w, d>> \in Result
BY StreamAssumption DEF Result

LEMMA Positions ==
  ASSUME NEW r \in Result
  PROVE  /\ TwapAt \in Nat /\ End(r) \in Nat /\ TwapAt < End(r) /\ PnlSizeAt(r) \in Nat
         /\ PnlSizeAt(r) >= TwapAt
         /\ \A p \in Sends(r) : p \in Nat /\ p <= End(r)
         /\ \A n \in Nat : n < End(r) =>
              \E p \in Sends(r) : p > n /\ \A q \in Sends(r) : q > n => p <= q
<1> DEFINE a == TwapSizeAt
           b == TwapAt
           c == PnlSizeAt(r)
           d == PnlAt(r)
           e == End(r)
<1>1. Twaps(r) \in Nat /\ a \in Nat /\ b = a + SizeLen /\ c = b + Twaps(r) /\ d = c + SizeLen
      /\ e = d + PnlLen /\ SizeLen \in Nat \ {0} /\ PnlLen \in Nat \ {0}
  BY Sizes DEF End
<1>2. Sends(r) = {a, b, c, d, e}
  BY DEF Sends
<1> HIDE DEF a, b, c, d, e
<1>3. b \in Nat /\ e \in Nat /\ b < e /\ c \in Nat /\ c >= b /\ d \in Nat
      /\ a <= e /\ b <= e /\ c <= e /\ d <= e
  BY <1>1
<1>4. ASSUME NEW n \in Nat, n < e
      PROVE  \E p \in Sends(r) : p > n /\ \A q \in Sends(r) : q > n => p <= q
  <2>1. CASE n < a
    <3>1. a > n /\ \A q \in Sends(r) : q > n => a <= q
      BY <1>1, <1>2, <2>1
    <3>2. QED BY <1>2, <3>1
  <2>2. CASE a <= n /\ n < b
    <3>1. b > n /\ \A q \in Sends(r) : q > n => b <= q
      BY <1>1, <1>2, <2>2
    <3>2. QED BY <1>2, <3>1
  <2>3. CASE b <= n /\ n < c
    <3>1. c > n /\ \A q \in Sends(r) : q > n => c <= q
      BY <1>1, <1>2, <2>3
    <3>2. QED BY <1>2, <3>1
  <2>4. CASE c <= n /\ n < d
    <3>1. d > n /\ \A q \in Sends(r) : q > n => d <= q
      BY <1>1, <1>2, <2>4
    <3>2. QED BY <1>2, <3>1
  <2>5. CASE d <= n
    <3>1. e > n /\ \A q \in Sends(r) : q > n => e <= q
      BY <1>1, <1>2, <1>4, <2>5
    <3>2. QED BY <1>2, <3>1
  <2>6. QED BY <1>1, <1>3, <2>1, <2>2, <2>3, <2>4, <2>5
<1>5. \A p \in Sends(r) : p \in Nat /\ p <= e
  BY <1>1, <1>2, <1>3
<1>6. QED BY <1>3, <1>4, <1>5 DEF b, c, e

\* A call of send sends at most to the end of the result.
LEMMA SendsUpTo ==
  ASSUME NEW r \in Result, NEW n \in Nat, NEW m \in Nat, n < End(r)
  PROVE  LET upTo == Min({Min({p \in Sends(r) : p > n}), m + Window})
         IN  upTo \in Nat /\ upTo <= End(r)
<1> DEFINE S == {p \in Sends(r) : p > n}
           x == Min(S)
           y == m + Window
<1>1. \E p \in S : \A q \in S : p <= q
  BY Positions
<1>2. x \in S
  BY <1>1 DEF Min
<1>3. x \in Nat /\ x <= End(r) /\ End(r) \in Nat
  BY <1>2, Positions
<1>4. y \in Nat
  BY BoundsAssumption
<1> HIDE DEF x, y
<1>5. \E p \in {x, y} : \A q \in {x, y} : p <= q
  BY <1>3, <1>4
<1>6. Min({x, y}) \in {x, y} /\ \A q \in {x, y} : Min({x, y}) <= q
  BY <1>5 DEF Min
<1>7. Min({x, y}) \in Nat /\ Min({x, y}) <= End(r)
  BY <1>3, <1>4, <1>6
<1>8. QED BY <1>7 DEF x, y

LEMMA SocketInit == Init => SocketInv
<1> SUFFICES ASSUME Init PROVE SocketInv
  OBVIOUS
<1>1. TypeOK
  <2>1. \A r \in Result : End(r) \in Nat
    BY Positions
  <2>2. serverUp \in BOOLEAN /\ clientUp \in BOOLEAN /\ split \in BOOLEAN
    BY Zenon DEF Init
  <2>3. \A w \in Worker : today[w] \in 1..Days[w] + 1
    BY ResultParts DEF Init
  <2>4. QED BY <2>1, <2>2, <2>3, BoundsAssumption DEF Init, TypeOK, Names
<1>2. SocketTypes
  BY <1>1, FS_EmptySet DEF Init, SocketTypes
<1>3. InHands
  BY Positions DEF Init, InHands
<1>4. QED BY <1>2, <1>3 DEF SocketInv, RunOut, Init

\* Steps that are none of the client's.
LEMMA ClientKept ==
  ASSUME SocketInv, TypeOK', read' \in [Result -> Nat], UNCHANGED <<cpc, today, sockets, noSocket, sent>>
  PROVE  SocketInv'
BY DEF SocketInv, SocketTypes, InHands, RunOut, Left

\* All but one of the workers can have a socket in their hands when the last fails.
LEMMA LeftAtFailure ==
  ASSUME SocketInv, NEW w \in Worker, cpc[w] = "ready", Cardinality(sockets) = MaxFds
  PROVE  Cardinality(Left) > MaxFds - Cardinality(Worker)
<1> DEFINE held == sockets \ Left
           others == Worker \ {w}
<1>1. IsFiniteSet(sockets) /\ sockets \subseteq Result /\ \A v \in Worker : today[v] \in Nat
  BY DEF SocketInv, SocketTypes, TypeOK
<1>2. IsFiniteSet(others) /\ Cardinality(others) = Cardinality(Worker) - 1 /\ Cardinality(Worker) \in Nat
  BY FS_RemoveElement, FS_CardinalityType, BoundsAssumption
<1>3. IsFiniteSet(Left) /\ IsFiniteSet(held) /\ Cardinality(held) = Cardinality(sockets) - Cardinality(Left)
      /\ Cardinality(Left) \in Nat
  <2>1. sockets \cap Left = Left /\ Left \in SUBSET sockets
    BY DEF Left
  <2>2. QED BY <1>1, <2>1, FS_Difference, FS_Subset, FS_CardinalityType
<1>4. \A r \in held : r \in Result /\ r[1] \in others /\ r = <<r[1], today[r[1]]>>
  <2>1. ASSUME NEW r \in held PROVE r \in Result /\ r[1] \in others /\ r = <<r[1], today[r[1]]>>
    <3>1. r \in Result /\ r = <<r[1], r[2]>> /\ r[1] \in Worker /\ r[2] \in Nat
      BY <1>1, ResultParts
    <3>2. r[2] = today[r[1]] /\ cpc[r[1]] # "ready"
      BY <1>1, <3>1 DEF Left, SocketInv, InHands
    <3>3. QED BY <3>1, <3>2
  <2>2. QED BY <2>1
<1> DEFINE f == [r \in held |-> r[1]]
<1>5. f \in Injection(held, others)
  <2>1. f \in [held -> others]
    BY <1>4
  <2>2. \A a, b \in held : a[1] = b[1] => a = b
    <3> HIDE DEF held, others
    <3>1. QED BY <1>4
  <2>3. QED BY <2>1, <2>2 DEF Injection, IsInjective
<1> HIDE DEF held, others, f
<1>6. Cardinality(held) <= Cardinality(others)
  BY <1>2, <1>5, FS_Injection
<1>7. QED BY <1>2, <1>3, <1>6, BoundsAssumption

\* When sentResult returns, what it leaves open has the name and the sizes sent.
LEMMA Returning ==
  ASSUME SocketInv, NEW w \in Worker, today[w] <= Days[w], Return(w),
         sockets' \subseteq sockets, sockets \ {Current(w)} \subseteq sockets',
         Current(w) \in sockets' => sent'[Current(w)] >= TwapAt,
         sent' \in [Result -> Nat], \A q \in Result \ {Current(w)} : sent'[q] = sent[q]
  PROVE  /\ InHands' /\ IsFiniteSet(sockets') /\ today' \in [Worker -> Nat]
         /\ cpc' \in [Worker -> {"ready", "connect", "send"}] /\ \A v \in Worker : today'[v] \in 1..Days[v] + 1
         /\ Cardinality(Left') \in Nat /\ Cardinality(Left) <= Cardinality(Left')
<1>1. /\ today \in [Worker -> Nat] /\ cpc \in [Worker -> {"ready", "connect", "send"}]
      /\ sockets \subseteq Result /\ IsFiniteSet(sockets) /\ \A v \in Worker : today[v] \in 1..Days[v] + 1
  BY DEF SocketInv, SocketTypes, TypeOK
<1>2. /\ today'[w] = today[w] + 1 /\ cpc'[w] = "ready" /\ today' \in [Worker -> Nat]
      /\ cpc' \in [Worker -> {"ready", "connect", "send"}]
      /\ \A v \in Worker \ {w} : today'[v] = today[v] /\ cpc'[v] = cpc[v]
  BY <1>1 DEF Return
<1>3. \A v \in Worker : today'[v] \in 1..Days[v] + 1
  BY <1>1, <1>2, ResultParts
<1>4. IsFiniteSet(sockets')
  BY <1>1, FS_Subset
<1>5. \A q \in Result : q # Current(w) => q[1] # w \/ q[2] # today[w]
  BY ResultParts DEF Current
<1>6. \A q \in Result : q[1] \in Worker /\ q[2] \in Nat
  BY ResultParts
<1>7. InHands'
  <2>1. \A v \in Worker : cpc'[v] # "ready" => today'[v] <= Days[v]
    BY <1>2 DEF SocketInv, InHands
  <2>2. ASSUME NEW q \in sockets'
        PROVE  /\ q[2] <= today'[q[1]]
               /\ q[2] = today'[q[1]] => cpc'[q[1]] # "ready"
               /\ q[2] < today'[q[1]] => sent'[q] >= TwapAt
    <3>1. /\ q \in sockets /\ q \in Result /\ q[1] \in Worker /\ q[2] \in Nat /\ today[q[1]] \in Nat
          /\ q[2] <= today[q[1]] /\ (q[2] = today[q[1]] => cpc[q[1]] # "ready")
          /\ (q[2] < today[q[1]] => sent[q] >= TwapAt)
      BY <1>1, <1>6 DEF SocketInv, InHands
    <3>2. CASE q = Current(w)
      <4>1. q[1] = w /\ q[2] = today[w]
        BY <3>2 DEF Current
      <4>2. sent'[q] >= TwapAt
        BY <2>2, <3>2
      <4>3. QED BY <1>2, <3>1, <4>1, <4>2
    <3>3. CASE q # Current(w) /\ q[1] = w
      <4>1. q[2] < today[w] /\ sent'[q] = sent[q]
        BY <1>5, <3>1, <3>3
      <4>2. QED BY <1>2, <3>1, <3>3, <4>1
    <3>4. CASE q # Current(w) /\ q[1] # w
      BY <1>2, <3>1, <3>4
    <3>5. QED BY <3>2, <3>3, <3>4
  <2>3. ASSUME NEW q \in Result, q[2] >= today'[q[1]] PROVE sent'[q] < End(q)
    <3>1. q[1] \in Worker /\ q[2] \in Nat /\ today[q[1]] \in Nat
      BY <1>1, <1>6
    <3>2. q # Current(w) /\ q[2] >= today[q[1]]
      BY <1>2, <2>3, <3>1 DEF Current
    <3>3. QED BY <3>2 DEF SocketInv, InHands
  <2>4. QED BY <2>1, <2>2, <2>3 DEF InHands
<1>8. Left \subseteq Left'
  <2>1. ASSUME NEW q \in Left PROVE q \in Left'
    <3>1. q \in sockets /\ q \in Result /\ q[1] \in Worker /\ q[2] \in Nat /\ today[q[1]] \in Nat /\ q[2] < today[q[1]]
      BY <1>1, <1>6 DEF Left
    <3>2. q # Current(w)
      BY <3>1 DEF Current
    <3>3. q \in sockets'
      BY <3>1, <3>2
    <3>4. today[q[1]] <= today'[q[1]] /\ today'[q[1]] \in Nat
      BY <1>2, <3>1
    <3>5. QED BY <3>1, <3>3, <3>4 DEF Left
  <2>2. QED BY <2>1
<1>9. IsFiniteSet(Left')
  <2>1. Left' \in SUBSET sockets'
    BY DEF Left
  <2>2. QED BY <1>4, <2>1, FS_Subset
<1>10. Cardinality(Left') \in Nat /\ Cardinality(Left) <= Cardinality(Left')
  BY <1>8, <1>9, FS_Subset, FS_CardinalityType
<1>11. QED BY <1>2, <1>3, <1>4, <1>7, <1>10

LEMMA ClientSockets ==
  ASSUME SocketInv, NEW w \in Worker, Client(w)
  PROVE  SocketInv'
<1> DEFINE r == Current(w)
<1>1. /\ TypeOK /\ today \in [Worker -> Nat] /\ sent \in [Result -> Nat] /\ read \in [Result -> Nat]
      /\ IsFiniteSet(sockets) /\ IsFiniteSet(Left) /\ Cardinality(Left) \in Nat /\ Left \subseteq sockets
  <2>1. Left \in SUBSET sockets
    BY DEF Left
  <2>2. QED BY <2>1, FS_Subset, FS_CardinalityType DEF SocketInv, SocketTypes
<1>2. \A v \in Worker : cpc[v] # "ready" => today[v] <= Days[v]
  BY DEF SocketInv, InHands
<1>3. \A q \in sockets : /\ q[2] <= today[q[1]]
                         /\ q[2] = today[q[1]] => cpc[q[1]] # "ready"
                         /\ q[2] < today[q[1]] => sent[q] >= TwapAt
  BY DEF SocketInv, InHands
<1>4. \A q \in Result : q[2] >= today[q[1]] => sent[q] < End(q)
  BY DEF SocketInv, InHands
<1>5. r[1] = w /\ r[2] = today[w]
  BY DEF Current
<1>6. ASSUME today[w] <= Days[w] PROVE r \in Result
  <2>1. today[w] \in 1..Days[w]
    BY <1>1, <1>6, ResultParts DEF TypeOK
  <2>2. QED BY <2>1, ResultParts DEF Current
<1> HIDE DEF r
<1>7. CASE Socket(w)
  <2>1. r \in Result
    BY <1>6, <1>7 DEF Socket
  <2>2. /\ sockets' = sockets \cup {r} /\ cpc' = [cpc EXCEPT ![w] = "connect"]
        /\ UNCHANGED <<today, noSocket, clientUp, conn, sent, read, serverUp, hpc, fileName, faults, spoilt, split>>
    BY <1>7 DEF Socket, r, network, handler, history
  <2>3. TypeOK'
    BY <1>1, <2>1, <2>2 DEF TypeOK
  <2>4. IsFiniteSet(sockets')
    BY <1>1, <2>2, FS_AddElement
  <2>5. InHands'
    BY <1>1, <1>2, <1>3, <1>4, <1>5, <1>7, <2>1, <2>2 DEF Socket, InHands, TypeOK
  <2>6. Left' = Left
    BY <1>1, <1>5, <2>2 DEF Left
  <2>7. QED BY <1>1, <2>2, <2>3, <2>4, <2>5, <2>6 DEF SocketInv, SocketTypes, RunOut
<1>8. CASE SocketFails(w)
  <2>1. /\ Return(w) /\ today[w] <= Days[w] /\ noSocket' = noSocket \cup {r} /\ r \in Result
        /\ UNCHANGED <<sockets, clientUp, conn, sent, read, serverUp, hpc, fileName, faults, spoilt, split>>
    BY <1>6, <1>8 DEF SocketFails, r, network, handler, history
  <2>2. r \notin sockets
    BY <1>3, <1>5, <1>8 DEF SocketFails
  <2>3. /\ InHands' /\ IsFiniteSet(sockets') /\ today' \in [Worker -> Nat]
        /\ cpc' \in [Worker -> {"ready", "connect", "send"}] /\ \A v \in Worker : today'[v] \in 1..Days[v] + 1
        /\ Cardinality(Left') \in Nat /\ Cardinality(Left) <= Cardinality(Left')
    BY <1>1, <2>1, <2>2, Returning DEF r
  <2>4. TypeOK'
    BY <1>1, <2>1, <2>3 DEF TypeOK
  <2>5. Cardinality(Left) > MaxFds - Cardinality(Worker)
    BY <1>8, LeftAtFailure DEF SocketFails
  <2>6. Cardinality(Left') > MaxFds - Cardinality(Worker)
    BY <1>1, <2>3, <2>5, BoundsAssumption, FS_CardinalityType
  <2>7. QED BY <1>1, <2>1, <2>3, <2>4, <2>6 DEF SocketInv, SocketTypes, RunOut
<1>9. CASE Connect(w)
  <2>1. r \in Result
    BY <1>2, <1>6, <1>9 DEF Connect
  <2>2. /\ conn' = [conn EXCEPT ![r] = "open"] /\ cpc' = [cpc EXCEPT ![w] = "send"] /\ cpc[w] = "connect"
        /\ UNCHANGED <<today, sockets, noSocket, clientUp, sent, read, serverUp, hpc, fileName, faults, spoilt, split>>
    BY <1>9 DEF Connect, r, network, handler, history
  <2>3. TypeOK'
    BY <1>1, <2>1, <2>2 DEF TypeOK
  <2>4. InHands'
    BY <1>1, <1>2, <1>3, <1>4, <2>2 DEF InHands, TypeOK
  <2>5. QED BY <1>1, <2>2, <2>3, <2>4 DEF SocketInv, SocketTypes, RunOut, Left
\* The call has failed.
<1>10. ASSUME Return(w), cpc[w] # "ready", sockets' \in {sockets, sockets \ {r}}, r \in sockets' => sent[r] >= TwapAt,
              faults' \in 0..MaxFaults, spoilt' \subseteq Result,
              UNCHANGED <<noSocket, clientUp, conn, sent, read, serverUp, hpc, fileName, split>>
       PROVE  SocketInv'
  <2>1. today[w] <= Days[w]
    BY <1>2, <1>10
  <2>2. /\ InHands' /\ IsFiniteSet(sockets') /\ today' \in [Worker -> Nat]
        /\ cpc' \in [Worker -> {"ready", "connect", "send"}] /\ \A v \in Worker : today'[v] \in 1..Days[v] + 1
        /\ Cardinality(Left') \in Nat /\ Cardinality(Left) <= Cardinality(Left')
    BY <1>1, <1>10, <2>1, Returning DEF r
  <2>3. TypeOK'
    BY <1>1, <1>10, <2>2 DEF TypeOK
  <2>4. RunOut'
    BY <1>1, <1>10, <2>2, BoundsAssumption, FS_CardinalityType DEF SocketInv, RunOut
  <2>5. QED BY <1>1, <1>10, <2>2, <2>3, <2>4 DEF SocketInv, SocketTypes
<1>11. CASE ConnectFails(w)
  <2>1. /\ cpc[w] = "connect" /\ Return(w) /\ sockets' = sockets \ {r} /\ spoilt' = spoilt \cup {r}
        /\ UNCHANGED <<noSocket, clientUp, conn, sent, read, serverUp, hpc, fileName, split>>
    BY <1>11 DEF ConnectFails, r, network, handler
  <2>2. r \in Result
    BY <1>2, <1>6, <2>1
  <2>3. faults' \in 0..MaxFaults
    <3>1. faults \in 0..MaxFaults /\ MaxFaults \in Nat
      BY <1>1, BoundsAssumption DEF TypeOK
    <3>2. faults' = faults \/ (faults < MaxFaults /\ faults' = faults + 1)
      BY <1>11 DEF ConnectFails, Faulty
    <3>3. QED BY <3>1, <3>2
  <2>4. spoilt' \subseteq Result
    BY <1>1, <2>1, <2>2 DEF TypeOK
  <2>5. QED BY <1>10, <2>1, <2>3, <2>4
<1>12. CASE Send(w)
  <2> DEFINE upTo == Min({Min({p \in Sends(r) : p > sent[r]}), read[r] + Window})
  <2>1. /\ cpc[w] = "send" /\ upTo > sent[r] /\ sent' = [sent EXCEPT ![r] = upTo]
        /\ IF sent'[r] = End(r) THEN Return(w) ELSE UNCHANGED <<cpc, today>>
        /\ UNCHANGED <<sockets, noSocket, clientUp, conn, read, serverUp, hpc, fileName, faults, spoilt, split>>
    BY <1>12 DEF Send, r, handler, history
  <2>2. r \in Result /\ today[w] <= Days[w]
    BY <1>2, <1>6, <2>1
  <2>3. sent[r] < End(r) /\ sent[r] \in Nat /\ read[r] \in Nat /\ End(r) \in Nat
    BY <1>1, <1>4, <1>5, <2>2, Positions
  <2>4. upTo \in Nat /\ upTo <= End(r)
    BY <2>2, <2>3, SendsUpTo
  <2> HIDE DEF upTo
  <2>5. /\ sent' \in [Result -> Nat] /\ sent'[r] = upTo /\ \A q \in Result \ {r} : sent'[q] = sent[q]
        /\ \A q \in Result : read'[q] \in 0..sent'[q] /\ sent'[q] \in 0..End(q)
    <3>1. sent' \in [Result -> Nat] /\ sent'[r] = upTo /\ \A q \in Result \ {r} : sent'[q] = sent[q]
      BY <1>1, <2>1, <2>2, <2>4
    <3>2. read[r] \in 0..upTo /\ upTo \in 0..End(r)
      BY <1>1, <2>1, <2>2, <2>3, <2>4 DEF TypeOK
    <3>3. \A q \in Result \ {r} : read[q] \in 0..sent[q] /\ sent[q] \in 0..End(q)
      BY <1>1 DEF TypeOK
    <3>4. QED BY <2>1, <3>1, <3>2, <3>3
  <2>6. CASE upTo = End(r)
    <3>1. Return(w)
      BY <2>1, <2>5, <2>6
    <3>2. sent'[r] >= TwapAt
      BY <2>2, <2>5, <2>6, Positions
    <3>3. /\ InHands' /\ IsFiniteSet(sockets') /\ today' \in [Worker -> Nat]
          /\ cpc' \in [Worker -> {"ready", "connect", "send"}] /\ \A v \in Worker : today'[v] \in 1..Days[v] + 1
          /\ Cardinality(Left') \in Nat /\ Cardinality(Left) <= Cardinality(Left')
      BY <1>1, <2>1, <2>2, <2>5, <3>1, <3>2, Returning DEF r
    <3>4. TypeOK'
      BY <1>1, <2>1, <2>5, <3>3 DEF TypeOK
    <3>5. RunOut'
      BY <1>1, <2>1, <3>3, BoundsAssumption, FS_CardinalityType DEF SocketInv, RunOut
    <3>6. QED BY <1>1, <2>1, <2>5, <3>3, <3>4, <3>5 DEF SocketInv, SocketTypes
  <2>7. CASE upTo # End(r)
    <3>1. UNCHANGED <<cpc, today>>
      BY <2>1, <2>5, <2>7
    <3>2. TypeOK'
      BY <1>1, <2>1, <2>5, <3>1 DEF TypeOK
    <3>3. InHands'
      <4>1. \A q \in sockets : q[2] < today[q[1]] => sent'[q] >= TwapAt
        <5>1. \A q \in sockets : q \in Result /\ (q[2] < today[q[1]] => q # r)
          BY <1>1, <1>5 DEF TypeOK
        <5>2. QED BY <1>3, <2>5, <5>1
      <4>2. \A q \in Result : q[2] >= today[q[1]] => sent'[q] < End(q)
        BY <1>4, <2>3, <2>4, <2>5, <2>7
      <4>3. QED BY <1>2, <1>3, <2>1, <3>1, <4>1, <4>2 DEF InHands
    <3>4. QED BY <1>1, <2>1, <2>5, <3>1, <3>2, <3>3 DEF SocketInv, SocketTypes, RunOut, Left
  <2>8. QED BY <2>6, <2>7
<1>13. CASE SendFails(w)
  <2>1. /\ cpc[w] = "send"
        /\ UNCHANGED <<noSocket, conn, sent, read, serverUp, hpc, fileName, faults, spoilt, split>>
        /\ \/ /\ \/ sockets' = sockets \ {r}
                 \/ (sent[r] > TwapAt \/ sent[r] = PnlSizeAt(r)) /\ sockets' = sockets
              /\ Return(w) /\ clientUp' = clientUp
           \/ clientUp' = FALSE /\ UNCHANGED <<cpc, today, sockets>>
    BY <1>13 DEF SendFails, r, network, handler, history
  <2>2. r \in Result
    BY <1>2, <1>6, <2>1
  <2>3. faults \in 0..MaxFaults /\ spoilt \subseteq Result
    BY <1>1 DEF TypeOK
  <2>4. CASE Return(w) /\ sockets' = sockets \ {r} /\ clientUp' = clientUp
    BY <1>10, <2>1, <2>3, <2>4
  <2>5. CASE Return(w) /\ (sent[r] > TwapAt \/ sent[r] = PnlSizeAt(r)) /\ sockets' = sockets /\ clientUp' = clientUp
    <3>1. sent[r] >= TwapAt
      BY <1>1, <2>2, <2>5, Positions
    <3>2. QED BY <1>10, <2>1, <2>3, <2>5, <3>1
  <2>6. CASE clientUp' = FALSE /\ UNCHANGED <<cpc, today, sockets>>
    <3>1. TypeOK'
      BY <1>1, <2>1, <2>6 DEF TypeOK
    <3>2. QED BY <1>1, <2>1, <2>6, <3>1, ClientKept
  <2>7. QED BY <2>1, <2>4, <2>5, <2>6
<1>14. QED BY <1>7, <1>8, <1>9, <1>11, <1>12, <1>13 DEF Client

\* What recv takes was sent.
LEMMA ReadSockets ==
  ASSUME SocketInv, NEW r \in Result, NEW n \in Int, NEW k \in Recv(r, n), Take(r, k),
         UNCHANGED <<client, serverUp>>,
         hpc' \in [Result -> Kind \cup {"none", "name", "twapSize", "openTwap", "pnlSize", "openPnl",
                                        "closed", "left", "failed"}],
         fileName' \in [Result -> Names], split' \in BOOLEAN, faults' \in 0..MaxFaults,
         spoilt' \subseteq Result
  PROVE  SocketInv'
<1>1. k \in Nat /\ read[r] + k <= sent[r]
  BY DEF Recv
<1>2. /\ read \in [Result -> Nat] /\ sent \in [Result -> Nat] /\ TypeOK
  BY DEF SocketInv, SocketTypes
<1>3. /\ read' \in [Result -> Nat] /\ read'[r] = read[r] + k /\ \A q \in Result \ {r} : read'[q] = read[q]
      /\ conn' = conn /\ sent' = sent
  BY <1>1, <1>2 DEF Take
<1>4. \A q \in Result : read'[q] \in 0..sent'[q] /\ sent'[q] \in 0..End(q)
  <2>1. read'[r] \in 0..sent[r]
    BY <1>1, <1>2, <1>3
  <2>2. QED BY <1>2, <1>3, <2>1 DEF TypeOK
<1>5. TypeOK'
  BY <1>2, <1>3, <1>4 DEF TypeOK, client
<1>6. QED BY <1>3, <1>5, ClientKept DEF client

LEMMA FaultyCounted ==
  ASSUME SocketInv, Faulty
  PROVE  faults' \in 0..MaxFaults
<1>1. faults \in 0..MaxFaults /\ MaxFaults \in Nat
  BY BoundsAssumption DEF SocketInv, SocketTypes, TypeOK
<1>2. QED BY <1>1 DEF Faulty

LEMMA PiecesCounted ==
  ASSUME SocketInv, NEW short \in BOOLEAN, Pieces(short)
  PROVE  faults' \in 0..MaxFaults /\ split' \in BOOLEAN
<1>1. CASE short
  <2>1. Faulty /\ split' = TRUE
    BY <1>1, Zenon DEF Pieces
  <2>2. QED BY <2>1, FaultyCounted
<1>2. CASE ~short
  <2>1. faults' = faults /\ split' = split
    BY <1>2, Zenon DEF Pieces
  <2>2. split \in BOOLEAN /\ faults \in 0..MaxFaults
    BY DEF SocketInv, SocketTypes, TypeOK
  <2>3. split' \in BOOLEAN
    BY <2>1, <2>2, Zenon
  <2>4. QED BY <2>1, <2>2, <2>3
<1>3. QED BY <1>1, <1>2

LEMMA HandlerSockets ==
  ASSUME SocketInv, NEW r \in Result, HandleClient(r)
  PROVE  SocketInv'
<1>0. /\ TypeOK /\ read \in [Result -> Nat] /\ SizeLen \in Nat /\ NameLen \in Nat /\ r \in Names
  BY Sizes DEF SocketInv, SocketTypes
<1>1. CASE RecvName(r)
  <2>1. PICK k \in Recv(r, NameLen) :
          /\ Take(r, k) /\ Pieces(k < NameLen)
          /\ \E n \in Names : /\ k = NameLen => n = r
                              /\ fileName' = [fileName EXCEPT ![r] = n]
    BY <1>1 DEF RecvName
  <2>2. fileName' \in [Result -> Names]
    BY <1>0, <2>1 DEF TypeOK
  <2>3. /\ hpc' \in [Result -> Kind \cup {"none", "name", "twapSize", "openTwap", "pnlSize", "openPnl",
                                          "closed", "left", "failed"}]
        /\ spoilt' \subseteq Result /\ UNCHANGED <<client, serverUp>>
    BY <1>0, <1>1 DEF RecvName, TypeOK
  <2>4. faults' \in 0..MaxFaults /\ split' \in BOOLEAN
    <3>1. k \in Int
      BY DEF Recv
    <3>2. (k < NameLen) \in BOOLEAN
      BY <1>0, <3>1
    <3>3. QED BY <2>1, <3>2, PiecesCounted
  <2>5. QED BY <1>0, <2>1, <2>2, <2>3, <2>4, ReadSockets
<1>2. ASSUME NEW at, NEW size, RecvSize(r, at, size),
             hpc' \in [Result -> Kind \cup {"none", "name", "twapSize", "openTwap", "pnlSize", "openPnl",
                                            "closed", "left", "failed"}]
      PROVE  SocketInv'
  <2>1. PICK k \in Recv(r, SizeLen) : Take(r, k) /\ Pieces(k < SizeLen)
    BY <1>2 DEF RecvSize
  <2>2. UNCHANGED <<client, serverUp, fileName, file, spoilt>>
    BY <1>2 DEF RecvSize
  <2>3. fileName' \in [Result -> Names] /\ spoilt' \subseteq Result /\ UNCHANGED <<client, serverUp>>
    BY <1>0, <2>2 DEF TypeOK
  <2>4. faults' \in 0..MaxFaults /\ split' \in BOOLEAN
    <3>1. k \in Int
      BY DEF Recv
    <3>2. (k < SizeLen) \in BOOLEAN
      BY <1>0, <3>1
    <3>3. QED BY <2>1, <3>2, PiecesCounted
  <2>5. QED BY <1>0, <1>2, <2>1, <2>3, <2>4, ReadSockets
<1>3. CASE RecvTwapSize(r)
  <2>1. RecvSize(r, TwapSizeAt, TwapLen[r[1]]) /\ hpc' = [hpc EXCEPT ![r] = "openTwap"]
    BY <1>3 DEF RecvTwapSize
  <2>2. QED BY <1>0, <1>2, <2>1 DEF TypeOK
<1>4. CASE RecvPnlSize(r)
  <2>1. RecvSize(r, PnlSizeAt(r), PnlLen) /\ hpc' = [hpc EXCEPT ![r] = "openPnl"]
    BY <1>4 DEF RecvPnlSize
  <2>2. QED BY <1>0, <1>2, <2>1 DEF TypeOK
<1>5. CASE RecvData(r)
  <2>1. PICK n \in Recv(r, Lesser(BUFFER_SIZE, dataSize[r] - totalRecSize[r])) : Take(r, n)
    BY <1>5 DEF RecvData
  <2>2. n \in Nat /\ n \in Recv(r, n)
    BY <2>1 DEF Recv
  <2>3. UNCHANGED <<client, serverUp, hpc, fileName, faults, spoilt, split>>
    BY <1>5 DEF RecvData, history
  <2>4. QED BY <1>0, <2>1, <2>2, <2>3, ReadSockets DEF TypeOK
<1>6. CASE OpenFile(r) \/ CloseFile(r) \/ RecvFails(r)
  <2>1. UNCHANGED <<cpc, today, sockets, noSocket, clientUp, conn, sent, read, serverUp, fileName, faults, spoilt, split>>
    BY <1>6 DEF OpenFile, Open, CloseFile, RecvFails, client, network, history
  <2>2. hpc' \in [Result -> Kind \cup {"none", "name", "twapSize", "openTwap", "pnlSize", "openPnl",
                                       "closed", "left", "failed"}]
    BY <1>0, <1>6 DEF OpenFile, Open, CloseFile, RecvFails, TypeOK, Kind
  <2>3. TypeOK'
    BY <1>0, <2>1, <2>2 DEF TypeOK
  <2>4. QED BY <1>0, <2>1, <2>3, ClientKept
<1>7. QED BY <1>1, <1>3, <1>4, <1>5, <1>6 DEF HandleClient

LEMMA SocketStep == SocketInv /\ [Next]_vars => SocketInv'
<1> SUFFICES ASSUME SocketInv, [Next]_vars PROVE SocketInv'
  OBVIOUS
<1>0. TypeOK /\ read \in [Result -> Nat]
  BY DEF SocketInv, SocketTypes
<1>1. CASE \E w \in Worker : Client(w)
  BY <1>1, ClientSockets
<1>2. ASSUME NEW r \in Result, Accept(r) PROVE SocketInv'
  <2>1. TypeOK' /\ UNCHANGED <<cpc, today, sockets, noSocket, sent, read>>
    BY <1>0, <1>2 DEF Accept, TypeOK, client, network, history
  <2>2. QED BY <1>0, <2>1, ClientKept
<1>3. ASSUME NEW r \in Result, HandleClient(r) PROVE SocketInv'
  BY <1>3, HandlerSockets
<1>4. ASSUME NEW r \in Result, OpenFails(r) \/ Break(r) PROVE SocketInv'
  <2>1. faults' \in 0..MaxFaults
    BY <1>4, FaultyCounted DEF OpenFails, Break
  <2>2. TypeOK' /\ UNCHANGED <<cpc, today, sockets, noSocket, sent, read>>
    BY <1>0, <1>4, <2>1 DEF OpenFails, Break, TypeOK, client, network, handler
  <2>3. QED BY <1>0, <2>2, ClientKept
<1>5. CASE CrashServer
  <2>1. faults' \in 0..MaxFaults
    BY <1>5, FaultyCounted DEF CrashServer
  <2>2. conn' \in [Result -> {"none", "open", "broken"}] /\ spoilt' \subseteq Result /\ serverUp' = FALSE
    BY <1>0, <1>5 DEF CrashServer, TypeOK
  <2>3. hpc' \in [Result -> Kind \cup {"none", "name", "twapSize", "openTwap", "pnlSize", "openPnl",
                                       "closed", "left", "failed"}]
    BY <1>0, <1>5 DEF CrashServer, TypeOK
  <2>4. UNCHANGED <<cpc, today, sockets, noSocket, clientUp, sent, read, fileName, split>>
    BY <1>5 DEF CrashServer, client
  <2>5. TypeOK'
    BY <1>0, <2>1, <2>2, <2>3, <2>4 DEF TypeOK
  <2>6. QED BY <1>0, <2>4, <2>5, ClientKept
<1>6. CASE StartServer
  <2>1. TypeOK' /\ UNCHANGED <<cpc, today, sockets, noSocket, sent, read>>
    BY <1>0, <1>6 DEF StartServer, TypeOK, client, network, handler, history
  <2>2. QED BY <1>0, <2>1, ClientKept
<1>7. CASE UNCHANGED vars
  <2>1. TypeOK' /\ UNCHANGED <<cpc, today, sockets, noSocket, sent, read>>
    BY <1>0, <1>7 DEF vars, TypeOK, client, network, handler, history
  <2>2. QED BY <1>0, <2>1, ClientKept
<1>8. QED BY <1>1, <1>2, <1>3, <1>4, <1>5, <1>6, <1>7 DEF Next

\* Nothing is read before it is sent, or sent past the end of a result.
THEOREM TransferTypeCorrect == Spec => []TypeOK
<1>1. SocketInv => TypeOK
  BY DEF SocketInv, SocketTypes
<1>2. QED BY SocketInit, SocketStep, <1>1, PTL DEF Spec

\* A socket that a worker has no longer in hand is one of a result whose TWAP orders
\* were begun, and a worker is without a socket only when nearly all are such
\* (sentResult, client.h).
THEOREM LeakedByResults == Spec => []SocketsRunOut
<1>1. SocketInv => SocketsRunOut
  <2> SUFFICES ASSUME SocketInv PROVE SocketsRunOut
    OBVIOUS
  <2>0. \A r \in sockets : r # Current(r[1]) => sent[r] >= TwapAt
    <3> SUFFICES ASSUME NEW r \in sockets, r # Current(r[1]) PROVE sent[r] >= TwapAt
      OBVIOUS
    <3>1. r \in Result
      BY DEF SocketInv, SocketTypes, TypeOK
    <3>2. r = <<r[1], r[2]>> /\ r[1] \in Worker /\ r[2] \in 1..Days[r[1]] /\ Days[r[1]] \in Nat
      BY <3>1, ResultParts, BoundsAssumption
    <3>3. today[r[1]] \in Nat /\ r[2] # today[r[1]]
      BY <3>2 DEF SocketInv, SocketTypes, Current
    <3>4. r[2] <= today[r[1]] /\ (r[2] < today[r[1]] => sent[r] >= TwapAt)
      BY DEF SocketInv, InHands
    <3>5. QED BY <3>2, <3>3, <3>4
  <2> SUFFICES ASSUME noSocket # {}
               PROVE  Cardinality({r \in sockets : sent[r] >= TwapAt}) > MaxFds - Cardinality(Worker)
    BY <2>0 DEF SocketsRunOut
  <2> DEFINE S == {r \in sockets : sent[r] >= TwapAt}
  <2>1. IsFiniteSet(sockets) /\ S \in SUBSET sockets /\ Left \subseteq S
    BY DEF SocketInv, SocketTypes, InHands, Left
  <2>2. IsFiniteSet(S) /\ Cardinality(S) \in Nat /\ Cardinality(Left) \in Nat
        /\ Cardinality(Left) <= Cardinality(S) /\ Cardinality(Worker) \in Nat
    <3>1. IsFiniteSet(S)
      BY <2>1, FS_Subset
    <3>2. IsFiniteSet(Left) /\ Cardinality(Left) <= Cardinality(S)
      BY <2>1, <3>1, FS_Subset
    <3>3. QED BY <3>1, <3>2, FS_CardinalityType, BoundsAssumption
  <2>3. Cardinality(Left) > MaxFds - Cardinality(Worker)
    BY DEF SocketInv, RunOut
  <2> HIDE DEF S
  <2>4. Cardinality(S) > MaxFds - Cardinality(Worker)
    BY <2>2, <2>3, BoundsAssumption
  <2>5. QED BY <2>4 DEF S
<1>2. QED BY SocketInit, SocketStep, <1>1, PTL DEF Spec

=============================================================================

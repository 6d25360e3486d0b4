------------------------------- MODULE Codec --------------------------------
(***************************************************************************)
(* vu32io, the coding of numbers in bytes and the buffer under a CRISP     *)
(* connection, one on each of its ends; and the forms of what is sent: an  *)
(* op with a list of literals, and a model packed in words.                *)
(*                                                                         *)
(* One buffer serves both ways: in r .. w - 1 are the bytes not yet read,  *)
(* in w .. r - 1 those not yet written.  The ends take turns.              *)
(***************************************************************************)
EXTENDS Integers, Sequences, SequencesExt, FiniteSetsExt

CONSTANTS
  WordBits,  \* the bits of a number, 32 in the code
  GroupBits, \* those of one byte, 7
  Groups,    \* the most bytes of a number, 5
  BufLen,    \* len(buf), 1024
  NProto,    \* how many numbers are protocol points, 256
  Messages,  \* what may be sent
  MaxTurns   \* bound on the messages

ASSUME WidthAssumption ==
  /\ {WordBits, GroupBits, Groups, BufLen} \subseteq Nat \ {0}
  /\ GroupBits * Groups >= WordBits

VARIABLES
  ends,    \* the vu32io of each end
  net,     \* the bytes under way to each end
  turn,    \* whose turn it is to write
  status,  \* "idle", "write" or "read"
  msg,     \* the message of this turn
  todo,    \* its numbers not yet coded
  part32,  \* the number being read: res and s of readu32, and i
  heard,   \* the numbers read
  arrived, \* the message they make, when it is complete
  failed,  \* an error of vu32io
  turns    \* how many messages were begun

codecVars == <<ends, net, turn, status, msg, todo, part32, heard, arrived, failed, turns>>

Ends == {"client", "server"}
Other(e) == IF e = "client" THEN "server" ELSE "client"

MinProto == 2^WordBits - NProto

NoPart == [res |-> 0, s |-> 0, i |-> 0]

NoMsg == [form |-> "list", op |-> 2^WordBits - 1, data |-> <<>>]

CodecInit ==
  /\ ends = [e \in Ends |-> [buf |-> [i \in 0 .. (BufLen - 1) |-> 0], r |-> 0, w |-> 0]]
  /\ net = [e \in Ends |-> <<>>]
  /\ turn = "server" /\ status = "idle" /\ msg = NoMsg /\ todo = <<>>
  /\ part32 = NoPart /\ heard = <<>> /\ arrived = NoMsg /\ failed = FALSE /\ turns = 0

-----------------------------------------------------------------------------
(***************************************************************************)
(* Forms.                                                                  *)
(***************************************************************************)
Words(n) == (n + WordBits - 1) \div WordBits

(* A word of a model: bit j is value k * WordBits + j + 1, if there is one. *)
PackWord(data, k) ==
  MapThenSumSet(LAMBDA j : 2^j,
    {j \in 0 .. (WordBits - 1) :
       k * WordBits + j + 1 \in DOMAIN data /\ data[k * WordBits + j + 1]})

(* Handler.handleModel: the number of words, and the words. *)
Pack(data) ==
  <<Words(Len(data))>> \o [k \in 1 .. Words(Len(data)) |-> PackWord(data, k - 1)]

(* Client.Model: a value for every bit. *)
Unpack(ns) ==
  [i \in 1 .. (WordBits * ns[1]) |->
     (ns[2 + (i - 1) \div WordBits] \div (2^((i - 1) % WordBits))) % 2 = 1]

Padded(data) ==
  [i \in 1 .. (WordBits * Words(Len(data))) |-> i \in DOMAIN data /\ data[i]]

NumbersOf(m) == IF m.form = "model" THEN Pack(m.data) ELSE <<m.op>> \o m.data \o <<0>>

Complete ==
  IF msg.form = "model" THEN heard # <<>> /\ Len(heard) = 1 + heard[1]
                        ELSE Len(heard) > 1 /\ heard[Len(heard)] = 0

(* An op after the first number, where a literal or a count must be. *)
NotData(n) ==
  n >= MinProto /\ (IF msg.form = "model" THEN heard = <<>> ELSE heard # <<>>)

-----------------------------------------------------------------------------
(***************************************************************************)
(* Writing.                                                                *)
(***************************************************************************)
(* Mutant: the place of the bytes already read is kept. *)
FlushKeepsW(s) ==
  [s EXCEPT !.sent = @ \o [i \in 1 .. (s.r - s.w) |-> s.buf[s.w + i - 1]], !.r = 0]

(* vu32io.flush: the bytes w .. r - 1, if there are any; Write may take    *)
(* several calls.                                                          *)
Flushed(s) ==
  [s EXCEPT !.sent = @ \o [i \in 1 .. (s.r - s.w) |-> s.buf[s.w + i - 1]], !.r = 0, !.w = 0]

WriteByte(s, b) ==
  LET f == IF s.r >= BufLen THEN Flushed(s) ELSE s
  IN  [f EXCEPT !.buf[f.r] = b, !.r = @ + 1]

(* The bytes of writeu32, the low bits first; all but the last are marked. *)
BytesOf(d) ==
  LET n == CHOOSE k \in 1 .. Groups :
             d < 2^(GroupBits * k) /\ (k > 1 => d >= 2^(GroupBits * (k - 1)))
  IN  [i \in 1 .. n |->
         ((d \div 2^(GroupBits * (i - 1))) % (2^GroupBits)) + (IF i < n THEN 2^GroupBits ELSE 0)]

Writer(e) == [buf |-> ends[e].buf, r |-> ends[e].r, w |-> ends[e].w, sent |-> <<>>]

Wrote(s) ==
  /\ ends' = [ends EXCEPT ![turn] = [buf |-> s.buf, r |-> s.r, w |-> s.w]]
  /\ net' = [net EXCEPT ![Other(turn)] = @ \o s.sent]

(* The other end begins a message. *)
Begin(m) ==
  /\ status = "idle" /\ turns < MaxTurns
  /\ turn' = Other(turn) /\ status' = "write" /\ turns' = turns + 1
  /\ msg' = m /\ todo' = NumbersOf(m) /\ heard' = <<>>
  /\ UNCHANGED <<ends, net, part32, arrived, failed>>

WriteNumber ==
  /\ status = "write" /\ todo # <<>>
  /\ Wrote(FoldLeft(WriteByte, Writer(turn), BytesOf(Head(todo))))
  /\ todo' = Tail(todo)
  /\ UNCHANGED <<turn, status, msg, part32, heard, arrived, failed, turns>>

WriteFlush ==
  /\ status = "write" /\ todo = <<>>
  /\ Wrote(Flushed(Writer(turn)))
  /\ status' = "read"
  /\ UNCHANGED <<turn, msg, todo, part32, heard, arrived, failed, turns>>

-----------------------------------------------------------------------------
(***************************************************************************)
(* Reading.  The other end may read while the message is being written.    *)
(***************************************************************************)
Reader == Other(turn)

Reads == status # "idle" /\ ~ failed /\ ~ Complete

(* vu32io.fill, with as many bytes as the connection has at the moment. *)
Fill ==
  LET s == ends[Reader]
      at == IF s.r = s.w THEN 0 ELSE s.w
  IN  /\ Reads /\ s.r >= s.w
      /\ IF s.r > s.w THEN failed' = TRUE /\ UNCHANGED <<ends, net>>
         ELSE \E k \in 1 .. Len(net[Reader]) :
                /\ k <= BufLen
                /\ ends' = [ends EXCEPT ![Reader] =
                     [buf |-> [i \in 0 .. (BufLen - 1) |->
                                 IF i < k THEN net[Reader][i + 1] ELSE s.buf[i]],
                      r |-> at, w |-> at + k]]
                /\ net' = [net EXCEPT ![Reader] = SubSeq(@, k + 1, Len(@))]
                /\ UNCHANGED failed
      /\ UNCHANGED <<turn, status, msg, todo, part32, heard, arrived, turns>>

(* One round of the loop of readu32. *)
ReadByte ==
  LET s == ends[Reader]
      b == s.buf[s.r]
      n == (part32.res + (b % (2^GroupBits)) * 2^part32.s) % (2^WordBits)
      last == b < 2^GroupBits
  IN  /\ Reads /\ s.r < s.w
      /\ ends' = [ends EXCEPT ![Reader].r = @ + 1]
      /\ part32' = IF last THEN NoPart
                   ELSE [res |-> n, s |-> part32.s + GroupBits, i |-> part32.i + 1]
      /\ heard' = IF last THEN Append(heard, n) ELSE heard
      /\ failed' = IF last THEN NotData(n) ELSE part32.i + 1 = Groups
      /\ UNCHANGED <<net, turn, status, msg, todo, arrived, turns>>

ReadEnd ==
  /\ status = "read" /\ Complete
  /\ status' = "idle"
  /\ arrived' = [msg EXCEPT !.data = IF msg.form = "model" THEN Unpack(heard)
                                     ELSE SubSeq(heard, 2, Len(heard) - 1),
                            !.op = IF msg.form = "model" THEN @ ELSE heard[1]]
  /\ UNCHANGED <<ends, net, turn, msg, todo, part32, heard, failed, turns>>

CodecNext ==
  \/ \E m \in Messages : Begin(m)
  \/ WriteNumber \/ WriteFlush \/ Fill \/ ReadByte \/ ReadEnd

-----------------------------------------------------------------------------
(* A message arrives as it was sent, in whatever pieces the connection     *)
(* takes and gives the bytes, at every length and with the buffers as the  *)
(* messages before it have left them; there is never an error, nor a byte  *)
(* left over.                                                              *)
MessagesArrive ==
  /\ ~ failed
  /\ status # "idle" => IsPrefix(heard, NumbersOf(msg))
  /\ status = "idle" /\ turns > 0 =>
       /\ arrived = [msg EXCEPT !.data = IF msg.form = "model" THEN Padded(@) ELSE @]
       /\ \A e \in Ends : net[e] = <<>> /\ ends[e].r = ends[e].w
=============================================================================

------------------------------- MODULE Ymodem -------------------------------
(***************************************************************************)
(* The file transfer of components/utilities/ymodem/ymodem.c: a board that *)
(* runs rym_send_on_device and one that runs rym_recv_on_device, with two  *)
(* serial lines between them that lose and damage what they carry and take *)
(* any time for it.  How a board waits for its next character is in module *)
(* SerialRx.                                                               *)
(*                                                                         *)
(* A packet is one item on the line: a header, which names the file, a     *)
(* block of the file, or the packet of zeros that ends a session.          *)
(***************************************************************************)
EXTENDS Naturals, Sequences

CONSTANTS
  BlockMax,  \* the number of blocks of the file
  NumberMod, \* the number of sequence numbers, 256
  HandMax,   \* handshake_timeout: how often the receiver asks
  ErrorMax,  \* RYM_MAX_ERRORS
  CanNum,    \* RYM_END_SESSION_SEND_CAN_NUM
  Noise,     \* the codes that noise on the line is taken for
  FaultMax   \* a bound on the faults of the lines in a session

YmodemAssumption ==
  /\ {BlockMax, HandMax, CanNum} \subseteq Nat \ {0}
  /\ NumberMod \in Nat \ {0, 1} /\ {ErrorMax, FaultMax} \subseteq Nat
  /\ Noise \subseteq {"EOT", "junk"}

VARIABLE ym \* both sides, the lines, and the blocks given to on_data

FileHeader == 0
Zeros == BlockMax + 1

(* What is on the line: a packet, whole, damaged so that only its checksum  *)
(* is wrong, or otherwise incomplete; or a single code.                     *)
Packet(b) == [code |-> "SOH", block |-> b, state |-> "whole"]
Code(c) == [code |-> c, block |-> 0, state |-> "whole"]

Number(p) == IF p.block = Zeros THEN 0 ELSE p.block % NumberMod

Item ==
  [code : {"SOH"}, block : 0 .. Zeros, state : {"whole", "crc", "cut"}]
    \cup {Code(c) : c \in {"EOT", "junk"}}

Sender == {"hand", "ack0", "c0", "data", "eot1", "eot2", "c1", "sent", "failed"}
Receiver == {"hand", "trans", "fin", "last", "received", "failed"}

TypeOK ==
  /\ ym.snd \in Sender /\ ym.block \in 0 .. BlockMax
  /\ ym.rcv \in Receiver /\ ym.errors \in 0 .. ErrorMax
  /\ ym.stage \in {"ESTABLISHING", "ESTABLISHED", "TRANSMITTING", "FINISHING", "FINISHED"}
  /\ {ym.asked, ym.looked} \subseteq 0 .. HandMax - 1
  /\ ym.fwd \in Seq(Item)
  /\ ym.back \in Seq({"ACK", "NAK", "C", "CAN", "junk"})
  /\ ym.got \in Seq(0 .. BlockMax) /\ ym.faults \in 0 .. FaultMax

(* Both have opened their devices, and the receiver has asked once.         *)
Start ==
  [snd |-> "hand", looked |-> 0, block |-> 0,
   rcv |-> "hand", asked |-> 0, stage |-> "ESTABLISHING", errors |-> 0,
   fwd |-> <<>>, back |-> <<"C">>, got |-> <<>>, faults |-> 0]

Init == ym = Start

-----------------------------------------------------------------------------
(* The receiver reads item c, or Code("none") when its time is over, and    *)
(* answers.                                                                 *)
Answer(c, codes) ==
  [ym EXCEPT !.fwd = IF c.code = "none" THEN @ ELSE Tail(@), !.back = @ \o codes]

Fails(c) == [Answer(c, <<>>) EXCEPT !.rcv = "failed"]

Heard == {Code("none")} \cup (IF ym.fwd = <<>> THEN {} ELSE {Head(ym.fwd)})

First(p) == p.code = "SOH" /\ p.state = "whole" /\ Number(p) = 0

(* on_begin has opened the file; _rym_do_trans starts.                      *)
Begun(c) ==
  [Answer(c, <<"ACK", "C">>) EXCEPT
     !.rcv = "trans", !.stage = "ESTABLISHED", !.errors = 0, !.got = <<>>]

(* _rym_do_handshake; on_begin may refuse.                                  *)
Handshake(c) ==
  /\ ym.rcv = "hand"
  /\ \/ /\ c.code # "SOH" /\ ym.asked + 1 < HandMax
        /\ ym' = [Answer(c, <<"C">>) EXCEPT !.asked = @ + 1]
     \/ c.code # "SOH" /\ ym.asked + 1 = HandMax /\ ym' = Fails(c)
     \/ First(c) /\ ym' = Begun(c)
     \/ c.code = "SOH" /\ ym' = Fails(c)

(* The header once more, although it was acknowledged.                      *)
Repeated(c) ==
  c.code = "SOH" /\ c.state # "cut" /\ ym.stage = "ESTABLISHED" /\ Number(c) = 0

(* _rym_do_fin, which follows _rym_do_trans whatever that returned.         *)
Finishing(v) ==
  [v EXCEPT !.rcv = "fin", !.stage = "FINISHING", !.errors = 0, !.back = Append(@, "NAK")]

(* The packets whose data are given to on_data.                             *)
Saved(c) == c.code = "SOH" /\ c.state = "whole" /\ ~ Repeated(c)

Wrong(c) == c.code # "EOT" /\ ~ Repeated(c) /\ ~ Saved(c)

StageAfter(c) == IF c.code = "SOH" /\ c.state # "cut" THEN "TRANSMITTING" ELSE ym.stage

(* One round of _rym_do_trans; on_data may cancel.                          *)
Trans(c) ==
  /\ ym.rcv = "trans"
  /\ \/ c.code = "EOT" /\ ym' = Finishing(Answer(c, <<>>))
     \/ Repeated(c) /\ ym' = [Answer(c, <<>>) EXCEPT !.errors = 0]
     \/ /\ Wrong(c) /\ ym.errors < ErrorMax
        /\ ym' = [Answer(c, <<"NAK">>) EXCEPT !.errors = @ + 1, !.stage = StageAfter(c)]
     \/ Wrong(c) /\ ym.errors = ErrorMax /\ ym' = Finishing(Answer(c, <<>>))
     \/ /\ Saved(c)
        /\ ym' = [Answer(c, <<"ACK">>) EXCEPT !.errors = 0, !.stage = "TRANSMITTING",
                                              !.got = Append(@, c.block)]
     \/ Saved(c) /\ ym' = Finishing(Answer(c, [i \in 1 .. CanNum |-> "CAN"]))

(* The rest of _rym_do_fin: a second EOT ...                                *)
Fin(c) ==
  /\ ym.rcv = "fin"
  /\ ym' = IF c.code = "EOT" THEN [Answer(c, <<"ACK", "C">>) EXCEPT !.rcv = "last"]
                             ELSE Fails(c)

(* ... and a packet that starts with zero, or the header of another file.   *)
LastPacket(c) ==
  /\ ym.rcv = "last"
  /\ \/ /\ First(c) /\ c.block # FileHeader
        /\ ym' = [Answer(c, <<"ACK">>) EXCEPT !.rcv = "received", !.stage = "FINISHED"]
     \/ First(c) /\ c.block # Zeros /\ ym' = Begun(c)
     \/ ~ (First(c) /\ c.block = Zeros) /\ ym' = Fails(c)

-----------------------------------------------------------------------------
(* _rym_do_send_handshake up to the header; on_begin may refuse.            *)
SendHandshake(c) ==
  LET read == [ym EXCEPT !.back = IF c = "none" THEN @ ELSE Tail(@)]
  IN  /\ ym.snd = "hand"
      /\ \/ c = "C" /\ ym' = [read EXCEPT !.snd = "ack0", !.fwd = Append(@, Packet(FileHeader))]
         \/ c # "C" /\ ym.looked + 1 < HandMax /\ ym' = [read EXCEPT !.looked = @ + 1]
         \/ (c = "C" \/ ym.looked + 1 = HandMax) /\ ym' = [read EXCEPT !.snd = "failed"]

(* What the sender waits for, without a time-out, in each place.            *)
Awaited == [ack0 |-> "ACK", c0 |-> "C", data |-> "ACK", eot1 |-> "NAK", eot2 |-> "ACK", c1 |-> "C"]

(* It goes on with item p.                                                  *)
Sends(v, p, place) == [v EXCEPT !.fwd = Append(@, p), !.snd = place]

SendsBlock(v) ==
  Sends([v EXCEPT !.block = @ + 1], Packet(v.block + 1), "data")

Proceeds(v) ==
  CASE v.snd = "ack0"                         -> [v EXCEPT !.snd = "c0"]
    [] v.snd = "c0"                           -> SendsBlock(v)
    [] v.snd = "data" /\ v.block < BlockMax   -> SendsBlock(v)
    [] v.snd = "data" /\ v.block = BlockMax   -> Sends(v, Code("EOT"), "eot1")
    [] v.snd = "eot1"                         -> Sends(v, Code("EOT"), "eot2")
    [] v.snd = "eot2"                         -> [v EXCEPT !.snd = "c1"]
    [] v.snd = "c1"                           -> Sends(v, Packet(Zeros), "sent")

(* Mutant: any answer to a block will do.                                   *)
Confirms_AnyAnswer(c) == c = Awaited[ym.snd] \/ ym.snd = "data"

Confirms(c) == c = Awaited[ym.snd]

(* The sender reads an answer; any but the one it waits for ends it, and    *)
(* on_end may refuse.                                                       *)
SendOn(c) ==
  LET read == [ym EXCEPT !.back = Tail(@)]
  IN  /\ ym.snd \in DOMAIN Awaited /\ c # "none"
      /\ \/ Confirms(c) /\ ym' = Proceeds(read)
         \/ (Confirms(c) => ym.snd = "c1") /\ ym' = [read EXCEPT !.snd = "failed"]

-----------------------------------------------------------------------------
(* The lines: what comes next is lost, or a packet damaged, or noise.       *)
Disturbed(p) ==
  {Code(c) : c \in Noise} \cup
  (IF p.code = "SOH" THEN {[p EXCEPT !.state = s] : s \in {"crc", "cut"}} ELSE {})

Fault ==
  /\ ym.faults < FaultMax
  /\ \/ /\ ym.fwd # <<>>
        /\ \/ ym' = [ym EXCEPT !.fwd = Tail(@), !.faults = @ + 1]
           \/ \E p \in Disturbed(Head(ym.fwd)) :
                ym' = [ym EXCEPT !.fwd = <<p>> \o Tail(@), !.faults = @ + 1]
     \/ /\ ym.back # <<>>
        /\ \E codes \in {<<>>, <<"junk">>} :
             ym' = [ym EXCEPT !.back = codes \o Tail(@), !.faults = @ + 1]

(* A new session, with nothing left on the lines; a sender that still waits *)
(* for an answer is reset.                                                  *)
Again == ym.rcv \in {"received", "failed"} /\ ym' = Start

Next ==
  \/ \E c \in Heard : Handshake(c) \/ Trans(c) \/ Fin(c) \/ LastPacket(c)
  \/ \E c \in {"none"} \cup (IF ym.back = <<>> THEN {} ELSE {Head(ym.back)}) :
       SendHandshake(c) \/ SendOn(c)
  \/ Fault \/ Again

Spec == Init /\ [][Next]_ym

-----------------------------------------------------------------------------
(* The protocol implements Transfer.                                        *)
Received == ym.rcv = "received"
Sent == ym.snd = "sent"
Mapped == <<ym.got, Received, Sent>>

Abstract == INSTANCE Transfer WITH got <- ym.got, received <- Received, sent <- Sent
=============================================================================

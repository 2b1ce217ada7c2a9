----------------------------- MODULE PointCodec -----------------------------
(***************************************************************************)
(* The two journeys of a compressed point through edwards.rs:              *)
(*   received   decode the bytes, apply the subgroup policy of a public    *)
(*              key, and encode the decoded point again;                   *)
(*   written    encode a computed point, whose Z is whatever the           *)
(*              multiplication left there, and decode the bytes written    *)
(*              (what the signer does with its own commitment and key).    *)
(***************************************************************************)
EXTENDS EdwardsGroup

CONSTANT WrittenZValues    \* the Z coordinates of the points written

ASSUME CodecAssumption == WrittenZValues \subseteq Residues \ {0}

VARIABLES
  stage,      \* what is done next
  wire,       \* the bytes received or written
  point,      \* the point decoded or computed
  strict,     \* what decode_strict_subgroup makes of the bytes received
  back        \* the bytes, or the point, after the way back

codec_vars == <<stage, wire, point, strict, back>>

CodecInit ==
  /\ \/ /\ stage = "receive"
        /\ wire \in {Some(encoding) : encoding \in Encoding}
        /\ point = None
     \/ /\ stage = "write"
        /\ wire = None
        /\ point \in {Some(Extended(p, z)) : p \in CurvePoints, z \in WrittenZValues}
  /\ strict = None
  /\ back = None

Receive ==
  /\ stage = "receive"
  /\ point' = Decode(wire.value)
  /\ strict' = DecodeStrictSubgroup(wire.value)
  /\ stage' = IF point'.some THEN "reencode" ELSE "received"
  /\ UNCHANGED <<wire, back>>

Reencode ==
  /\ stage = "reencode"
  /\ back' = Encode(point.value)
  /\ stage' = "received"
  /\ UNCHANGED <<wire, point, strict>>

Write ==
  /\ stage = "write"
  /\ wire' = Encode(point.value)
  /\ stage' = IF wire'.some THEN "readback" ELSE "written"
  /\ UNCHANGED <<point, strict, back>>

ReadBack ==
  /\ stage = "readback"
  /\ back' = Decode(wire.value)
  /\ stage' = "written"
  /\ UNCHANGED <<wire, point, strict>>

CodecNext == Receive \/ Reencode \/ Write \/ ReadBack

CodecSpec == CodecInit /\ [][CodecNext]_codec_vars

-----------------------------------------------------------------------------

(* The decoder accepts the encodings of the points of the curve, and no    *)
(* other bytes: no second spelling of a y, no reserved bit, no negative    *)
(* zero, nothing off the curve, and no point it fails to find a root for.  *)
DecodesExactlyTheCurve ==
  stage \in {"reencode", "received"} =>
    (point.some <=> wire.value \in WireImages)

(* Bytes that decode encode again to the same bytes (draft, section 3.1),  *)
(* so the decoder picks the root with the sign the bytes ask for.          *)
ReencodingReproducesTheInput ==
  stage = "received" /\ point.some => back = wire

(* The subgroup policy of a public key: of the points of the curve, those  *)
(* of order exactly L.  The group has 4 L points, so these are the         *)
(* multiples of four other than zero.                                      *)
StrictIsExactOrderL ==
  stage \in {"reencode", "received"} =>
    (strict.some <=>
       /\ point.some
       /\ PointLog(point.value) # 0
       /\ PointLog(point.value) % 4 = 0)

(* Whatever Z a computed point carries, what is written is the encoding of *)
(* the affine point, and it decodes to a point the crate calls equal.      *)
WrittenPointReadsBackEqual ==
  stage = "written" =>
    /\ wire = Some(WireImage(Affine(point.value)))
    /\ back.some
    /\ CtEq(back.value, point.value)

=============================================================================

--------------------------------- MODULE MCOta ---------------------------------
(***************************************************************************)
(* Images of up to two bytes with CRCs of two bits, so that images share   *)
(* one; the ones of one byte stay in the stream.                           *)
(***************************************************************************)
EXTENDS Ota

\* Two images of two bytes have the CRC of another one.
MCCrc32 == [i \in Image |->
  CASE i = <<>> -> <<0, 0>>
    [] i = <<0>> -> <<0, 1>>
    [] i = <<1>> -> <<1, 0>>
    [] i = <<0, 0>> -> <<1, 0>>
    [] i = <<0, 1>> -> <<1, 1>>
    [] i = <<1, 0>> -> <<0, 1>>
    [] OTHER -> <<0, 0>>]
=================================================================================

--------------------------- MODULE DhcpFindOption ---------------------------
(***************************************************************************)
(* dhcp_find_option (libdhcp/src/dhcp.c): looks for an option in the       *)
(* option area of a DHCP packet, a chain of options of the form            *)
(*   code, length, value bytes                                             *)
(* that DHO_END terminates.  The loop reads the byte after every code as a *)
(* length, the code DHO_PAD included, and reads code and length before it  *)
(* knows that the second still belongs to the area.                        *)
(***************************************************************************)
EXTENDS Integers, Sequences

CONSTANTS
  Inputs,       \* calls: [data, size, option, opts]
  Null          \* the null pointer

(* Where the i-th option of an encoded area begins.                        *)
Offset(opts) ==
  LET at[i \in 1..(Len(opts) + 1)] ==
        IF i = 1 THEN 0 ELSE at[i - 1] + opts[i - 1].len + 2
  IN  at

(* The area holds the options one after the other, their values being any  *)
(* bytes, and DHO_END where the next one would begin.                      *)
Encodes(call, opts) ==
  LET at == Offset(opts)
      end == Len(opts) + 1
  IN  /\ \A i \in 1..Len(opts) : /\ call.data[at[i]] = opts[i].code
                                 /\ call.data[at[i] + 1] = opts[i].len
      /\ at[end] < call.size /\ call.data[at[end]] = 255

(* The area starts at data[0] and has size bytes; the two bytes behind it  *)
(* are there to be read by mistake.  opts are the options the area is the  *)
(* encoding of, or Null if its bytes are arbitrary.                        *)
ASSUME InputAssumption ==
  /\ Null \notin Int
  /\ \A call \in Inputs :
       /\ call.size \in Nat
       /\ call.data \in [0..(call.size + 1) -> 0..255]
       /\ call.option \in 0..254
       /\ call.opts # Null =>
            /\ call.opts \in Seq([code : 0..254, len : 0..255])
            /\ Encodes(call, call.opts)

VARIABLES
  in,           \* the arguments
  idx, cop,     \* unsigned int idx; unsigned char cop
  done,         \* the function has returned
  result,       \* offset of the value found, or Null
  datalen       \* *datalen, Null if it was not written

vars == <<in, idx, cop, done, result, datalen>>

Init ==
  /\ in \in Inputs
  /\ idx = 0 /\ cop = 0
  /\ done = FALSE /\ result = Null /\ datalen = Null

MoreTooLong == cop # 255 /\ idx <= in.size        \* mutant
MoreAfterEnd == idx < in.size                     \* mutant: END not tested

More == cop # 255 /\ idx < in.size

(* One iteration that finds the option, one that goes on to the next.      *)
Found ==
  /\ ~done /\ More
  /\ in.data[idx] = in.option
  /\ cop' = in.data[idx]
  /\ result' = idx + 2
  /\ datalen' = in.data[idx + 1]
  /\ done' = TRUE
  /\ UNCHANGED <<in, idx>>

SkipLengthOnly ==                     \* mutant: code and length not skipped
  /\ ~done /\ More
  /\ in.data[idx] # in.option
  /\ cop' = in.data[idx]
  /\ idx' = idx + in.data[idx + 1]
  /\ UNCHANGED <<in, done, result, datalen>>

Skip ==
  /\ ~done /\ More
  /\ in.data[idx] # in.option
  /\ cop' = in.data[idx]
  /\ idx' = idx + in.data[idx + 1] + 2
  /\ UNCHANGED <<in, done, result, datalen>>

NotFound ==
  /\ ~done /\ ~More
  /\ done' = TRUE
  /\ UNCHANGED <<in, idx, cop, result, datalen>>

Next == Found \/ Skip \/ NotFound

Spec == Init /\ [][Next]_vars

FairSpec == Spec /\ WF_vars(Next)
-----------------------------------------------------------------------------
(* The first of the options with the code looked for.                      *)
Wanted == {i \in DOMAIN in.opts : in.opts[i].code = in.option}
First == CHOOSE i \in Wanted : \A j \in Wanted : i <= j

(* Type invariant.  The index leaves the area by at most one option.       *)
TypeOK ==
  /\ idx \in 0..(in.size + 256) /\ cop \in 0..255
  /\ done \in BOOLEAN
  /\ result \in Nat \cup {Null} /\ datalen \in 0..255 \cup {Null}

(* On an area that encodes options, whatever their values contain and      *)
(* whatever follows DHO_END, the first option with the code is found, with *)
(* its length, and NULL is returned if there is none.  Pads count as       *)
(* options of code 0 and length 0: they do no harm in pairs.               *)
FindsFirst ==
  done /\ in.opts # Null =>
    IF Wanted = {} THEN result = Null
    ELSE /\ result = Offset(in.opts)[First] + 2
         /\ datalen = in.opts[First].len

(* On arbitrary bytes the code found lies inside the area and is the one   *)
(* looked for.  Its length may be the byte behind the area, and nothing    *)
(* bounds the value by the area.                                           *)
FoundInside ==
  result # Null => /\ result \in 2..(in.size + 1)
                   /\ in.data[result - 2] = in.option
                   /\ datalen = in.data[result - 1]

(* The search ends, whatever the bytes.                                    *)
Terminates == <>done
=============================================================================

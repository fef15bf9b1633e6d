-------------------------- MODULE MCDhcpFindOption --------------------------
(***************************************************************************)
(* Calls of dhcp_find_option: every encoding of up to MaxOptions options   *)
(* (DHO_END and Behind bytes follow), and every area of up to MaxRaw       *)
(* arbitrary bytes.  Values are filled with one byte that may look like a  *)
(* code, a pad or DHO_END, and it follows DHO_END where the next option    *)
(* would begin.                                                            *)
(***************************************************************************)
EXTENDS DhcpFindOption

CONSTANTS MaxOptions, MaxRaw, Behind

Codes == {12, 53}                 \* HOST_NAME, MESSAGE_TYPE
Fillers == {0, 12, 255}
Option == [code : Codes, len : 0..2] \cup {[code |-> 0, len |-> 0]}

Encoded(opts, fill) ==
  LET at == Offset(opts)
      end == at[Len(opts) + 1]
      byte(j) ==
        IF j = end THEN 255
        ELSE IF j = end + 1 THEN 0
        ELSE IF \E i \in 1..Len(opts) : at[i] = j
        THEN opts[CHOOSE i \in 1..Len(opts) : at[i] = j].code
        ELSE IF \E i \in 1..Len(opts) : at[i] + 1 = j
        THEN opts[CHOOSE i \in 1..Len(opts) : at[i] + 1 = j].len
        ELSE fill
  IN  [size |-> end + Behind, data |-> [j \in 0..(end + Behind + 1) |-> byte(j)]]

EncodedInputs ==
  { [data |-> Encoded(o, f).data, size |-> Encoded(o, f).size,
     option |-> c, opts |-> o] :
    o \in UNION {[1..n -> Option] : n \in 0..MaxOptions},
    f \in Fillers, c \in Codes }

RawInputs ==
  UNION { { [data |-> d, size |-> n, option |-> 12, opts |-> Null] :
            d \in [0..(n + 1) -> {0, 1, 12, 255}] } : n \in 0..MaxRaw }

AllInputs == EncodedInputs \cup RawInputs
=============================================================================

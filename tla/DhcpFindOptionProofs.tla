------------------------- MODULE DhcpFindOptionProofs -------------------------
(***************************************************************************)
(* What dhcp_find_option reads and returns, for areas of any size and any  *)
(* bytes in them.                                                          *)
(***************************************************************************)
EXTENDS DhcpFindOption, Induction, TLAPS

(* f is a table of where the first n options and what follows them begin.  *)
Solves(opts, n, f) ==
  f = [i \in 1..(n + 1) |->
         IF i = 1 THEN 0 ELSE f[i - 1] + opts[i - 1].len + 2]

(* There is one for every number of options: the recursion of Offset has a *)
(* solution.                                                               *)
LEMMA OffsetSolution ==
  ASSUME NEW opts, NEW n \in Nat
  PROVE  \E f : Solves(opts, n, f)
<1> DEFINE S == {m \in Nat : \E f : Solves(opts, m, f)}
<1>1. 0 \in S
  <2> DEFINE f == [i \in 1..(0 + 1) |-> 0]
  <2>1. Solves(opts, 0, f)
    <3>1. \A i \in 1..(0 + 1) : i = 1 OBVIOUS
    <3> QED BY <3>1 DEF Solves
  <2> QED BY <2>1
<1>2. ASSUME NEW m \in Nat, m \in S PROVE m + 1 \in S
  <2>1. PICK f : Solves(opts, m, f) BY <1>2
  <2> DEFINE g == [i \in 1..(m + 1 + 1) |->
                    IF i = m + 2 THEN f[m + 1] + opts[m + 1].len + 2 ELSE f[i]]
             h == [i \in 1..(m + 1 + 1) |->
                    IF i = 1 THEN 0 ELSE g[i - 1] + opts[i - 1].len + 2]
  <2>2. \A i \in 1..(m + 1) : f[i] = IF i = 1 THEN 0 ELSE f[i - 1] + opts[i - 1].len + 2
    BY <2>1 DEF Solves
  <2>3. ASSUME NEW i \in 1..(m + 1 + 1) PROVE g[i] = h[i]
    <3>1. CASE i = m + 2
      <4>1. m + 1 \in 1..(m + 1 + 1) /\ m + 1 # m + 2 /\ i # 1 /\ i - 1 = m + 1 BY <3>1
      <4>2. g[m + 1] = f[m + 1] BY <4>1
      <4>3. h[i] = g[i - 1] + opts[i - 1].len + 2 BY <4>1
      <4> QED BY <3>1, <4>1, <4>2, <4>3
    <3>2. CASE i # m + 2 /\ i = 1
      <4>1. i \in 1..(m + 1) BY <3>2
      <4> QED BY <3>2, <4>1, <2>2
    <3>3. CASE i # m + 2 /\ i # 1
      <4>1. i \in 1..(m + 1) /\ i - 1 \in 1..(m + 1 + 1) /\ i - 1 # m + 2 BY <3>3
      <4>2. g[i - 1] = f[i - 1] BY <4>1
      <4>3. h[i] = g[i - 1] + opts[i - 1].len + 2 BY <3>3
      <4> QED BY <3>3, <4>1, <4>2, <4>3, <2>2
    <3> QED BY <3>1, <3>2, <3>3
  <2>4. g = h
    <3> DEFINE D == 1..(m + 1 + 1)
    <3>1. g = [i \in D |-> g[i]] /\ h = [i \in D |-> h[i]] OBVIOUS
    <3>2. \A i \in D : g[i] = h[i] BY <2>3
    <3> HIDE DEF g, h, D
    <3> QED BY <3>1, <3>2
  <2>5. Solves(opts, m + 1, g)
    <3> HIDE DEF g
    <3> QED BY <2>4 DEF Solves
  <2> QED BY <2>5
<1> HIDE DEF S
<1>3. Nat \subseteq S BY <1>1, <1>2, NatSet
<1> QED BY <1>3 DEF S

(* Offset(opts) satisfies the equation that defines it.                    *)
LEMMA OffsetSolves ==
  ASSUME NEW opts, Len(opts) \in Nat
  PROVE  Solves(opts, Len(opts), Offset(opts))
<1>1. \E f : Solves(opts, Len(opts), f) BY OffsetSolution
<1>2. Offset(opts) = CHOOSE f : Solves(opts, Len(opts), f) BY DEF Offset, Solves
<1> QED BY <1>1, <1>2

(* The options begin at offsets of the area, each behind the one before,   *)
(* and none behind the place where DHO_END stands.                         *)
LEMMA OffsetSteps ==
  ASSUME NEW opts \in Seq([code : 0..254, len : 0..255])
  PROVE  /\ Offset(opts)[1] = 0
         /\ \A i \in 1..Len(opts) :
              /\ opts[i].code \in 0..254 /\ opts[i].len \in 0..255
              /\ Offset(opts)[i + 1] = Offset(opts)[i] + opts[i].len + 2
         /\ \A i \in 1..(Len(opts) + 1) :
              /\ Offset(opts)[i] \in Nat
              /\ Offset(opts)[i] <= Offset(opts)[Len(opts) + 1]
<1> DEFINE at == Offset(opts)
           n == Len(opts)
<1>0. n \in Nat OBVIOUS
<1>1. at = [i \in 1..(n + 1) |->
              IF i = 1 THEN 0 ELSE at[i - 1] + opts[i - 1].len + 2]
  BY <1>0, OffsetSolves DEF Solves
<1>2. at[1] = 0 BY <1>0, <1>1
<1>3. \A i \in 1..n : opts[i] \in [code : 0..254, len : 0..255]
  <2> DEFINE T == [code : 0..254, len : 0..255]
  <2>1. opts \in Seq(T) OBVIOUS
  <2> HIDE DEF T
  <2>2. \A i \in 1..n : opts[i] \in T BY <2>1
  <2> QED BY <2>2 DEF T
<1>4. \A i \in 1..n : opts[i].code \in 0..254 /\ opts[i].len \in 0..255 BY <1>3
<1> HIDE DEF at
<1>5. ASSUME NEW i \in 1..n PROVE at[i + 1] = at[i] + opts[i].len + 2
  <2>1. i + 1 \in 1..(n + 1) /\ i + 1 # 1 /\ (i + 1) - 1 = i BY <1>0
  <2>2. at[i + 1] = at[(i + 1) - 1] + opts[(i + 1) - 1].len + 2 BY <1>1, <2>1
  <2> QED BY <2>1, <2>2
<1> HIDE DEF n
<1>6. \A i \in 1..(n + 1) : at[i] \in Nat
  <2> DEFINE S == {m \in Nat : m <= n => at[m + 1] \in Nat}
  <2>1. 0 \in S BY <1>2
  <2>2. ASSUME NEW m \in Nat, m \in S PROVE m + 1 \in S
    <3> SUFFICES ASSUME m + 1 <= n PROVE at[m + 1 + 1] \in Nat OBVIOUS
    <3>1. m + 1 \in 1..n /\ m <= n BY <1>0
    <3>2. at[m + 1] \in Nat BY <2>2, <3>1
    <3>3. opts[m + 1].len \in 0..255 BY <3>1, <1>4
    <3>4. at[m + 1 + 1] = at[m + 1] + opts[m + 1].len + 2 BY <1>5, <3>1
    <3>5. \A a \in Nat, l \in 0..255 : a + l + 2 \in Nat OBVIOUS
    <3> QED BY <3>2, <3>3, <3>4, <3>5
  <2> HIDE DEF S
  <2>3. Nat \subseteq S BY <2>1, <2>2, NatSet
  <2> TAKE i \in 1..(n + 1)
  <2>4. i - 1 \in Nat /\ i - 1 <= n /\ (i - 1) + 1 = i BY <1>0
  <2> QED BY <2>3, <2>4 DEF S
<1>7. \A i \in 1..(n + 1) : at[i] <= at[n + 1]
  <2> DEFINE S == {m \in Nat : m <= n => at[n + 1 - m] <= at[n + 1]}
  <2>1. 0 \in S
    <3>1. n + 1 - 0 = n + 1 /\ n + 1 \in 1..(n + 1) BY <1>0
    <3>2. at[n + 1] \in Nat BY <3>1, <1>6
    <3>3. at[n + 1] <= at[n + 1] BY <3>2
    <3> QED BY <3>1, <3>3
  <2>2. ASSUME NEW m \in Nat, m \in S PROVE m + 1 \in S
    <3> SUFFICES ASSUME m + 1 <= n PROVE at[n + 1 - (m + 1)] <= at[n + 1] OBVIOUS
    <3> DEFINE k == n + 1 - (m + 1)
    <3>1. /\ k \in 1..n /\ k \in 1..(n + 1) /\ k + 1 = n + 1 - m
          /\ k + 1 \in 1..(n + 1) /\ n + 1 \in 1..(n + 1) /\ m <= n
      BY <1>0
    <3> HIDE DEF k
    <3>2. at[k + 1] <= at[n + 1] BY <2>2, <3>1
    <3>3. at[k + 1] = at[k] + opts[k].len + 2 BY <1>5, <3>1
    <3>4. /\ at[k] \in Nat /\ at[k + 1] \in Nat /\ at[n + 1] \in Nat
          /\ opts[k].len \in 0..255
      BY <1>4, <1>6, <3>1
    <3>5. at[k] <= at[n + 1]
      <4> DEFINE a == at[k]
                 c == at[n + 1]
                 l == opts[k].len
      <4>1. a \in Nat /\ c \in Nat /\ l \in 0..255 BY <3>4
      <4>2. a + l + 2 <= c BY <3>2, <3>3
      <4> HIDE DEF a, c, l
      <4>3. a <= c BY <4>1, <4>2
      <4> QED BY <4>3 DEF a, c
    <3> QED BY <3>5 DEF k
  <2> HIDE DEF S
  <2>3. Nat \subseteq S BY <2>1, <2>2, NatSet
  <2> TAKE i \in 1..(n + 1)
  <2>4. n + 1 - i \in Nat /\ n + 1 - i <= n /\ n + 1 - (n + 1 - i) = i BY <1>0
  <2> QED BY <2>3, <2>4 DEF S
<1> QED BY <1>2, <1>4, <1>5, <1>6, <1>7 DEF at, n
-----------------------------------------------------------------------------
IInv == in \in Inputs /\ TypeOK /\ FoundInside

(* The arguments are as InputAssumption says, at every iteration.          *)
LEMMA InputTypes ==
  ASSUME in \in Inputs
  PROVE  /\ in.size \in Nat
         /\ in.data \in [0..(in.size + 1) -> 0..255]
         /\ Null \notin Int
BY InputAssumption

(* Nothing is found before the first iteration.                            *)
LEMMA InitIInv == Init => IInv
<1> SUFFICES ASSUME Init PROVE IInv OBVIOUS
<1>1. in.size \in Nat BY InputTypes DEF Init
<1>2. TypeOK
  <2>1. \A s \in Nat : 0 \in 0..(s + 256) /\ 0 \in 0..255 OBVIOUS
  <2> QED BY <1>1, <2>1 DEF Init, TypeOK
<1>3. FoundInside BY DEF Init, FoundInside
<1> QED BY <1>2, <1>3 DEF Init, IInv

(* An iteration reads a code inside the area and a length at most one byte *)
(* behind it, which bounds where the next one begins.                      *)
LEMMA StepIInv == IInv /\ [Next]_vars => IInv'
<1> SUFFICES ASSUME IInv, [Next]_vars PROVE IInv' OBVIOUS
<1> USE DEF IInv
<1>1. /\ in.size \in Nat
      /\ in.data \in [0..(in.size + 1) -> 0..255]
      /\ Null \notin Int
  BY InputTypes
<1>2. ASSUME More PROVE /\ idx \in 0..(in.size - 1)
                        /\ in.data[idx] \in 0..255
                        /\ in.data[idx + 1] \in 0..255
  <2>1. idx \in 0..(in.size - 1) BY <1>1, <1>2 DEF More, TypeOK
  <2>2. idx \in 0..(in.size + 1) /\ idx + 1 \in 0..(in.size + 1)
    BY <2>1, <1>1
  <2> QED BY <2>1, <2>2, <1>1
<1>3. CASE Found
  <2>1. /\ idx \in 0..(in.size - 1)
        /\ in.data[idx] \in 0..255 /\ in.data[idx + 1] \in 0..255
    BY <1>2, <1>3 DEF Found
  <2>2. in' = in /\ idx' = idx /\ cop' = in.data[idx] /\ done' = TRUE
        /\ result' = idx + 2 /\ datalen' = in.data[idx + 1]
        /\ in.data[idx] = in.option
    BY <1>3 DEF Found
  <2>3. TypeOK' BY <2>1, <2>2, <1>1 DEF TypeOK
  <2>4. FoundInside'
    <3>1. idx + 2 \in 2..(in.size + 1) BY <2>1, <1>1
    <3>2. (idx + 2) - 2 = idx /\ (idx + 2) - 1 = idx + 1 BY <2>1, <1>1
    <3> QED BY <3>1, <3>2, <2>2 DEF FoundInside
  <2> QED BY <2>2, <2>3, <2>4
<1>4. CASE Skip
  <2>1. /\ idx \in 0..(in.size - 1)
        /\ in.data[idx] \in 0..255 /\ in.data[idx + 1] \in 0..255
    BY <1>2, <1>4 DEF Skip
  <2>2. in' = in /\ idx' = idx + in.data[idx + 1] + 2
        /\ cop' = in.data[idx] /\ UNCHANGED <<done, result, datalen>>
    BY <1>4 DEF Skip
  <2>3. idx + in.data[idx + 1] + 2 \in 0..(in.size + 256)
    <3>1. \A s \in Nat : \A i \in 0..(s - 1) : \A n \in 0..255 :
             i + n + 2 \in 0..(s + 256)
      OBVIOUS
    <3> QED BY <3>1, <2>1, <1>1
  <2>4. TypeOK' BY <2>1, <2>2, <2>3 DEF TypeOK
  <2>5. FoundInside' BY <2>2 DEF FoundInside
  <2> QED BY <2>2, <2>4, <2>5
<1>5. CASE NotFound
  BY <1>5 DEF NotFound, TypeOK, FoundInside
<1>6. CASE UNCHANGED vars
  BY <1>6 DEF vars, TypeOK, FoundInside
<1> QED BY <1>3, <1>4, <1>5, <1>6 DEF Next

(* dhcp_find_option: types of its locals; its index leaves an area of any  *)
(* size by at most one option.                                             *)
THEOREM FindOptionTypes == Spec => []TypeOK
<1>1. IInv => TypeOK BY DEF IInv
<1> QED BY InitIInv, StepIInv, <1>1, PTL DEF Spec

(* dhcp_find_option: on an area of any size with any content, what it      *)
(* returns follows a code inside the area, the one looked for, with the    *)
(* byte after that code as its length.                                     *)
THEOREM FindOptionInside == Spec => []FoundInside
<1>1. IInv => FoundInside BY DEF IInv
<1> QED BY InitIInv, StepIInv, <1>1, PTL DEF Spec
-----------------------------------------------------------------------------
(* Where the loop stands in an area that encodes options: at the start of  *)
(* one, or of DHO_END, with no option of the code looked for before it; or *)
(* behind DHO_END, and there is none at all.                               *)
Place ==
  ~done /\ in.opts # Null =>
    \/ /\ cop # 255
       /\ \E i \in 1..(Len(in.opts) + 1) :
            /\ idx = Offset(in.opts)[i]
            /\ \A j \in 1..(i - 1) : in.opts[j].code # in.option
    \/ cop = 255 /\ Wanted = {}

Unset == ~done => result = Null

FirstInv == IInv /\ Place /\ Unset /\ FindsFirst

(* What InputAssumption says of an area that encodes options.              *)
LEMMA EncodedTypes ==
  ASSUME in \in Inputs, in.opts # Null
  PROVE  /\ in.opts \in Seq([code : 0..254, len : 0..255])
         /\ Len(in.opts) \in Nat /\ DOMAIN in.opts = 1..Len(in.opts)
         /\ in.option \in 0..254
         /\ \A i \in 1..Len(in.opts) :
              /\ in.data[Offset(in.opts)[i]] = in.opts[i].code
              /\ in.data[Offset(in.opts)[i] + 1] = in.opts[i].len
         /\ Offset(in.opts)[Len(in.opts) + 1] < in.size
         /\ in.data[Offset(in.opts)[Len(in.opts) + 1]] = 255
<1>1. /\ in.opts \in Seq([code : 0..254, len : 0..255])
      /\ in.option \in 0..254 /\ Encodes(in, in.opts)
  BY InputAssumption
<1>2. Len(in.opts) \in Nat /\ DOMAIN in.opts = 1..Len(in.opts) BY <1>1
<1> QED BY <1>1, <1>2 DEF Encodes

(* The first option with the code is the one before which there is none.   *)
LEMMA FirstIs ==
  ASSUME in \in Inputs, in.opts # Null,
         NEW i \in 1..Len(in.opts), in.opts[i].code = in.option,
         \A j \in 1..(i - 1) : in.opts[j].code # in.option
  PROVE  Wanted # {} /\ First = i
<1>1. Len(in.opts) \in Nat /\ DOMAIN in.opts = 1..Len(in.opts) BY EncodedTypes
<1>2. i \in Wanted BY <1>1 DEF Wanted
<1>3. ASSUME NEW j \in Wanted PROVE j \in Nat /\ i <= j
  <2>1. j \in 1..Len(in.opts) /\ in.opts[j].code = in.option
    BY <1>1 DEF Wanted
  <2>2. ~(j \in 1..(i - 1)) BY <2>1
  <2> QED BY <1>1, <2>1, <2>2
<1>4. \A k \in Wanted : (\A j \in Wanted : k <= j) => k = i
  <2> TAKE k \in Wanted
  <2> HAVE \A j \in Wanted : k <= j
  <2>1. k <= i /\ i <= k /\ k \in Nat BY <1>2, <1>3
  <2> QED BY <2>1
<1>5. i \in Wanted /\ \A j \in Wanted : i <= j BY <1>2, <1>3
<1> QED BY <1>4, <1>5 DEF First

(* The loop starts at the first option.                                    *)
LEMMA InitFirst == Init => FirstInv
<1> SUFFICES ASSUME Init PROVE FirstInv OBVIOUS
<1>1. IInv BY InitIInv
<1>2. Place
  <2> SUFFICES ASSUME in.opts # Null
               PROVE  \E i \in 1..(Len(in.opts) + 1) :
                        /\ idx = Offset(in.opts)[i]
                        /\ \A j \in 1..(i - 1) : in.opts[j].code # in.option
    BY DEF Init, Place
  <2>1. in \in Inputs /\ idx = 0 BY DEF Init
  <2>2. Len(in.opts) \in Nat BY <2>1, EncodedTypes
  <2>3. Offset(in.opts)[1] = 0 BY <2>1, EncodedTypes, OffsetSteps
  <2>4. 1 \in 1..(Len(in.opts) + 1) /\ 1..(1 - 1) = {} BY <2>2
  <2> QED BY <2>1, <2>3, <2>4
<1>3. Unset /\ FindsFirst BY DEF Init, Unset, FindsFirst
<1> QED BY <1>1, <1>2, <1>3 DEF FirstInv

(* An iteration at an option returns it or goes on to the next one; the    *)
(* loop ends at the option looked for or at DHO_END, never because the     *)
(* index has left the area.                                                *)
LEMMA StepFirst == FirstInv /\ [Next]_vars => FirstInv'
<1> SUFFICES ASSUME FirstInv, [Next]_vars PROVE FirstInv' OBVIOUS
<1>1. IInv' BY StepIInv DEF FirstInv
<1>2. in \in Inputs BY DEF FirstInv, IInv
<1>3. CASE Found
  <2>0. ~done /\ More /\ in' = in /\ done' = TRUE /\ in.data[idx] = in.option
        /\ result' = idx + 2 /\ datalen' = in.data[idx + 1]
    BY <1>3 DEF Found
  <2>1. Place' /\ Unset' BY <2>0 DEF Place, Unset
  <2>2. FindsFirst'
    <3> SUFFICES ASSUME in.opts # Null
                 PROVE  /\ Wanted # {}
                        /\ result' = Offset(in.opts)[First] + 2
                        /\ datalen' = in.opts[First].len
      BY <2>0 DEF FindsFirst, Wanted, First
    <3>1. PICK i \in 1..(Len(in.opts) + 1) :
            /\ idx = Offset(in.opts)[i]
            /\ \A j \in 1..(i - 1) : in.opts[j].code # in.option
      BY <2>0 DEF FirstInv, Place, More
    <3>2. Len(in.opts) \in Nat /\ in.option \in 0..254
          /\ in.data[Offset(in.opts)[Len(in.opts) + 1]] = 255
      BY <1>2, EncodedTypes
    <3>3. i # Len(in.opts) + 1
      <4>1. \A c \in 0..254 : c # 255 OBVIOUS
      <4>2. in.option # 255 BY <3>2, <4>1
      <4> QED BY <2>0, <3>1, <3>2, <4>2
    <3>4. i \in 1..Len(in.opts) BY <3>1, <3>2, <3>3
    <3>5. /\ in.data[Offset(in.opts)[i]] = in.opts[i].code
          /\ in.data[Offset(in.opts)[i] + 1] = in.opts[i].len
      BY <1>2, <3>4, EncodedTypes
    <3>6. Wanted # {} /\ First = i BY <1>2, <3>1, <3>4, <3>5, <2>0, FirstIs
    <3> QED BY <2>0, <3>1, <3>5, <3>6
  <2> QED BY <1>1, <2>1, <2>2 DEF FirstInv
<1>4. CASE Skip
  <2>0. ~done /\ More /\ in' = in /\ done' = done /\ in.data[idx] # in.option
        /\ cop' = in.data[idx] /\ idx' = idx + in.data[idx + 1] + 2
        /\ result' = result
    BY <1>4 DEF Skip
  <2>1. Unset' /\ FindsFirst' BY <2>0 DEF FirstInv, Unset, FindsFirst
  <2>2. Place'
    <3> SUFFICES ASSUME in.opts # Null
                 PROVE  \/ /\ cop' # 255
                           /\ \E i \in 1..(Len(in.opts) + 1) :
                                /\ idx' = Offset(in.opts)[i]
                                /\ \A j \in 1..(i - 1) :
                                     in.opts[j].code # in.option
                        \/ cop' = 255 /\ Wanted = {}
      BY <2>0 DEF Place, Wanted
    <3>1. PICK i \in 1..(Len(in.opts) + 1) :
            /\ idx = Offset(in.opts)[i]
            /\ \A j \in 1..(i - 1) : in.opts[j].code # in.option
      BY <2>0 DEF FirstInv, Place, More
    <3>2. /\ Len(in.opts) \in Nat /\ DOMAIN in.opts = 1..Len(in.opts)
          /\ in.data[Offset(in.opts)[Len(in.opts) + 1]] = 255
          /\ in.opts \in Seq([code : 0..254, len : 0..255])
      BY <1>2, EncodedTypes
    <3>3. CASE i = Len(in.opts) + 1
      <4>1. cop' = 255 BY <2>0, <3>1, <3>2, <3>3
      <4>2. 1..(i - 1) = 1..Len(in.opts) BY <3>2, <3>3
      <4>3. Wanted = {} BY <3>1, <3>2, <4>2 DEF Wanted
      <4> QED BY <4>1, <4>3
    <3>4. CASE i # Len(in.opts) + 1
      <4>1. i \in 1..Len(in.opts) BY <3>1, <3>2, <3>4
      <4>2. /\ in.data[Offset(in.opts)[i]] = in.opts[i].code
            /\ in.data[Offset(in.opts)[i] + 1] = in.opts[i].len
        BY <1>2, <4>1, EncodedTypes
      <4>3. /\ in.opts[i].code \in 0..254
            /\ Offset(in.opts)[i + 1] = Offset(in.opts)[i] + in.opts[i].len + 2
        BY <3>2, <4>1, OffsetSteps
      <4>4. cop' = in.opts[i].code /\ in.opts[i].code # in.option
        BY <2>0, <3>1, <4>2
      <4>5. cop' # 255
        <5>1. \A c \in 0..254 : c # 255 OBVIOUS
        <5> QED BY <4>3, <4>4, <5>1
      <4>6. idx' = Offset(in.opts)[i + 1] BY <2>0, <3>1, <4>2, <4>3
      <4>7. i + 1 \in 1..(Len(in.opts) + 1) BY <3>2, <4>1
      <4>8. \A j \in 1..((i + 1) - 1) : j = i \/ j \in 1..(i - 1)
        BY <3>2, <4>1
      <4>9. \A j \in 1..((i + 1) - 1) : in.opts[j].code # in.option
        BY <3>1, <4>4, <4>8
      <4> QED BY <4>5, <4>6, <4>7, <4>9
    <3> QED BY <3>3, <3>4
  <2> QED BY <1>1, <2>1, <2>2 DEF FirstInv
<1>5. CASE NotFound
  <2>0. ~done /\ ~More /\ in' = in /\ done' = TRUE /\ result' = result
    BY <1>5 DEF NotFound
  <2>1. Place' /\ Unset' BY <2>0 DEF Place, Unset
  <2>2. FindsFirst'
    <3> SUFFICES ASSUME in.opts # Null PROVE Wanted = {} /\ result' = Null
      BY <2>0 DEF FindsFirst, Wanted
    <3>1. result' = Null BY <2>0 DEF FirstInv, Unset
    <3>2. ASSUME cop # 255 PROVE FALSE
      <4>1. PICK i \in 1..(Len(in.opts) + 1) : idx = Offset(in.opts)[i]
        BY <2>0, <3>2 DEF FirstInv, Place
      <4>2. /\ in.opts \in Seq([code : 0..254, len : 0..255])
            /\ Len(in.opts) \in Nat
            /\ Offset(in.opts)[Len(in.opts) + 1] < in.size
            /\ in.size \in Nat
        BY <1>2, EncodedTypes, InputTypes
      <4> DEFINE end == Offset(in.opts)[Len(in.opts) + 1]
      <4>3. idx \in Nat /\ idx <= end BY <4>1, <4>2, OffsetSteps
      <4>4. Len(in.opts) + 1 \in 1..(Len(in.opts) + 1) BY <4>2
      <4>5. end \in Nat /\ end < in.size BY <4>2, <4>4, OffsetSteps
      <4> HIDE DEF end
      <4>6. idx < in.size BY <4>2, <4>3, <4>5
      <4> QED BY <2>0, <3>2, <4>6 DEF More
    <3> QED BY <2>0, <3>1, <3>2 DEF FirstInv, Place
  <2> QED BY <1>1, <2>1, <2>2 DEF FirstInv
<1>6. CASE UNCHANGED vars
  <2>1. Place' /\ Unset' /\ FindsFirst'
    BY <1>6 DEF FirstInv, vars, Place, Unset, FindsFirst, Wanted, First
  <2> QED BY <1>1, <2>1 DEF FirstInv
<1> QED BY <1>3, <1>4, <1>5, <1>6 DEF Next

(* dhcp_find_option: on an area of any size that encodes any options, it   *)
(* returns the value and the length of the first one with the code looked  *)
(* for, and NULL exactly if there is none.                                 *)
THEOREM FindOptionFirst == Spec => []FindsFirst
<1>1. FirstInv => FindsFirst BY DEF FirstInv
<1> QED BY InitFirst, StepFirst, <1>1, PTL DEF Spec

(* dhcp_find_option: every iteration that does not return begins inside    *)
(* the area and advances by at least the two bytes of code and length, on  *)
(* any bytes: the loop has no more iterations than half the area has bytes.*)
THEOREM FindOptionAdvances ==
  Spec => [][done' \/ (idx < in.size /\ idx' >= idx + 2)]_vars
<1>1. IInv /\ [Next]_vars => [done' \/ (idx < in.size /\ idx' >= idx + 2)]_vars
  <2> SUFFICES ASSUME IInv, Skip PROVE idx < in.size /\ idx' >= idx + 2
    BY DEF Next, Found, NotFound
  <2>1. in.size \in Nat /\ in.data \in [0..(in.size + 1) -> 0..255]
    BY InputTypes DEF IInv
  <2>2. idx \in Nat /\ idx < in.size BY <2>1 DEF IInv, TypeOK, Skip, More
  <2>3. idx + 1 \in 0..(in.size + 1)
    <3>1. \A i, n \in Nat : i < n => i + 1 \in 0..(n + 1) OBVIOUS
    <3> QED BY <2>1, <2>2, <3>1
  <2>4. in.data[idx + 1] \in 0..255 BY <2>1, <2>3
  <2>5. \A n \in 0..255 : idx + n + 2 >= idx + 2 BY <2>2
  <2> QED BY <2>2, <2>4, <2>5 DEF Skip
<1> QED BY <1>1, InitIInv, StepIInv, PTL DEF Spec
==============================================================================

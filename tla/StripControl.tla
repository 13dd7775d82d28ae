---------------------------- MODULE StripControl ----------------------------
(***************************************************************************)
(* stripControl and skipANSI (infrastructure/forgejo): the byte loop every *)
(* file and diff text passes through on its way to an MCP client.  A byte  *)
(* is represented by the class the loop tells apart.  Diffs come from      *)
(* Forgejo as they are, so that any sequence of bytes may be a text; files *)
(* are valid UTF-8, whose characters are here of one byte ("low", "final", *)
(* ...) or of two ("lead" "cont").                                         *)
(* The output is kept as the sequence of the positions written to the      *)
(* builder, so that what was kept can be compared with what was read.      *)
(* Positions count from 1.                                                 *)
(***************************************************************************)
EXTENDS Naturals, Sequences

CONSTANT Inputs

(* 0x1b, '[', the rest of 0x40..0x7e, 0x20..0x3f, \n \t \r, the other C0   *)
(* bytes and 0x7f, the first and the second byte of a longer character.    *)
Classes == {"esc", "bracket", "final", "low", "space", "ctrl", "lead", "cont"}

(* Go's utf8.Valid, by which decodeFile tells text from binary blobs.      *)
ValidUTF8(t) == \A p \in DOMAIN t :
    /\ t[p] = "lead" => p < Len(t) /\ t[p + 1] = "cont"
    /\ t[p] = "cont" => p > 1 /\ t[p - 1] = "lead"

ASSUME InputsAssumption == Inputs \subseteq Seq(Classes)

VARIABLES s, i, b

vars == <<s, i, b>>

Final(c) == c \in {"bracket", "final"}

Finals(t, p) == {j \in (p + 2)..Len(t) : Final(t[j])}

First(S) == CHOOSE j \in S : \A k \in S : j <= k

(* Faulty variant: parameters and final byte of ESC [ are left in.         *)
skipANSI_NoCSI(t, p) == IF p + 1 > Len(t) THEN p ELSE p + 1

(* Faulty variant: one past the end instead of the last byte. *)
skipANSI_PastEnd(t, p) ==
    CASE p + 1 > Len(t) -> p + 1
      [] p + 1 <= Len(t) /\ t[p + 1] = "bracket" ->
            IF Finals(t, p) = {} THEN Len(t) + 1 ELSE First(Finals(t, p))
      [] p + 1 <= Len(t) /\ t[p + 1] # "bracket" -> p + 1

(* The position of the last byte of the escape sequence that starts at p. *)
skipANSI(t, p) ==
    CASE p + 1 > Len(t) -> p
      [] p + 1 <= Len(t) /\ t[p + 1] = "bracket" ->
            IF Finals(t, p) = {} THEN Len(t) ELSE First(Finals(t, p))
      [] p + 1 <= Len(t) /\ t[p + 1] # "bracket" -> p + 1

-----------------------------------------------------------------------------
Init == s \in Inputs /\ i = 1 /\ b = <<>>

(* Faulty variant: resume at the last byte of the sequence, not after it.  *)
Escape_NoAdvance ==
    /\ i <= Len(s) /\ s[i] = "esc"
    /\ i' = skipANSI(s, i)
    /\ UNCHANGED <<s, b>>

Escape ==
    /\ i <= Len(s) /\ s[i] = "esc"
    /\ i' = skipANSI(s, i) + 1
    /\ UNCHANGED <<s, b>>

(* Faulty variant: DEL and the C0 bytes are written like the white space. *)
Control_Written ==
    /\ i <= Len(s) /\ s[i] \in {"space", "ctrl"}
    /\ b' = Append(b, i)
    /\ i' = i + 1
    /\ UNCHANGED s

Control ==
    /\ i <= Len(s) /\ s[i] \in {"space", "ctrl"}
    /\ b' = IF s[i] = "space" THEN Append(b, i) ELSE b
    /\ i' = i + 1
    /\ UNCHANGED s

Write ==
    /\ i <= Len(s) /\ s[i] \notin {"esc", "space", "ctrl"}
    /\ b' = Append(b, i)
    /\ i' = i + 1
    /\ UNCHANGED s

Next == Escape \/ Control \/ Write

Spec == Init /\ [][Next]_vars /\ WF_vars(Next)

-----------------------------------------------------------------------------
Done == i > Len(s)

(* The loop never reads or skips beyond the end of the text. *)
TypeOK ==
    /\ s \in Inputs
    /\ i \in 1..(Len(s) + 1)
    /\ b \in Seq(1..Len(s))

(* SPEC.md S09: no ESC and no other C0 byte but \n \t \r, nor DEL, is      *)
(* left, whatever is dropped around it; and what is left is the text's own *)
(* bytes in the text's own order, none twice.                              *)
OutputIsSafeText ==
    /\ \A k \in DOMAIN b : s[b[k]] \notin {"esc", "ctrl"}
    /\ \A k \in DOMAIN b : b[k] < i /\ \A m \in 1..(k - 1) : b[m] < b[k]

(* What an escape sequence is, said without the loop: ESC and one byte, or *)
(* ESC [ up to the first final byte, or cut short by the end of the text.  *)
IsSequence(t, e, f) ==
    /\ t[e] = "esc"
    /\ \/ f = e /\ e = Len(t)
       \/ f = e + 1 /\ f <= Len(t) /\ t[f] # "bracket"
       \/ /\ f > e /\ f <= Len(t) /\ t[e + 1] = "bracket"
          /\ \A j \in (e + 2)..(f - 1) : ~ Final(t[j])
          /\ (f > e + 1 /\ Final(t[f])) \/ f = Len(t)

(* Every one of them is dropped whole, and nothing beside them.  The text  *)
(* read so far falls into escape sequences that do not overlap and leave   *)
(* no ESC outside, so that there is but one way to choose them, and the    *)
(* rest, which is kept to the last byte except for control bytes.          *)
DropsWholeSequences ==
    \E spans \in SUBSET {p \in (1..(i - 1)) \X (1..(i - 1)) : IsSequence(s, p[1], p[2])} :
        LET swallowed == UNION {p[1]..p[2] : p \in spans} IN
        /\ \A p, q \in spans : p # q => p[2] < q[1] \/ q[2] < p[1]
        /\ \A p \in 1..(i - 1) : s[p] = "esc" => p \in swallowed
        /\ {b[k] : k \in DOMAIN b} = {p \in (1..(i - 1)) \ swallowed : s[p] # "ctrl"}

(* The loop comes to the end of every text. *)
Terminates == <>Done

(* server.go, forgejo_file_get: "Returns the UTF-8 text content" - of a    *)
(* file, that decodeFile found to be valid UTF-8.                          *)
OutputIsUTF8 == Done /\ ValidUTF8(s) => ValidUTF8([k \in DOMAIN b |-> s[b[k]]])
=============================================================================

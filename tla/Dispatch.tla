------------------------------ MODULE Dispatch ------------------------------
(***************************************************************************)
(* What process_data makes of one received buffer: src/library/processing.c*)
(* and, with MAX_NAME_SIZE = FieldSize, the older src/processing.c.        *)
(*                                                                         *)
(* A buffer is a sequence of cells: the opcode, the two lengths (a 16-bit  *)
(* number is one cell) and then bytes; the session id is left out, since   *)
(* nothing here looks at it.  The buffer comes from calloc and the received*)
(* length is thrown away, so beyond its end a short buffer reads as zeros. *)
(* A request is copied into a struct where the name fields lie next to     *)
(* each other and need not end in a NUL: the strings are read from there.  *)
(***************************************************************************)
EXTENDS Integers, Sequences

CONSTANTS MAX_NAME_SIZE,   \* longest name let through: 10, in src/ 64
          FieldSize        \* sizeof(username) and sizeof(password), 64

ASSUME SizesAssumption ==
    MAX_NAME_SIZE \in Nat /\ FieldSize \in Nat /\ MAX_NAME_SIZE <= FieldSize

LoginOpcodes   == {1, 2, 3, 5, 8}
UserDelOpcodes == {4, 6, 7, 11, 12}
LinkAddOpcodes == {9, 10}

Cell(buf, k) == IF k < Len(buf) THEN buf[k + 1] ELSE 0

opcode(buf)       == Cell(buf, 0)
username_len(buf) == Cell(buf, 1)
password_len(buf) == Cell(buf, 2)
Data == 3

-----------------------------------------------------------------------------
(* memcpy of n bytes of the buffer into a field that calloc has cleared.   *)
Copied(buf, from, n) ==
    [k \in 1..FieldSize |-> IF k <= n THEN Cell(buf, from + k - 1) ELSE 0]

(* strlen of what starts at index at; every struct ends in a NUL.          *)
strlen(mem, at) ==
    CHOOSE n \in 0..Len(mem) - at :
        mem[at + n] = 0 /\ \A k \in 0..n - 1 : mem[at + k] # 0

(* isalnum, ispunct and the blank: the printable characters.               *)
Printable == 32..126

is_ascii(mem, at) ==
    \A k \in 0..strlen(mem, at) - 1 : mem[at + k] \in Printable

(* Mutated form of GoodString: the length is not compared.                 *)
GoodCharacters(mem, at, len) == is_ascii(mem, at)

GoodString(mem, at, len) == is_ascii(mem, at) /\ strlen(mem, at) = len

LengthsFit(buf) ==
    username_len(buf) <= MAX_NAME_SIZE /\ password_len(buf) <= MAX_NAME_SIZE

(* The two names in the struct, the second right behind the first.         *)
BothNames(buf) ==
    Copied(buf, Data, username_len(buf))
      \o Copied(buf, Data + username_len(buf), password_len(buf))

BothGood(buf, mem) ==
    /\ GoodString(mem, 1, username_len(buf))
    /\ GoodString(mem, FieldSize + 1, password_len(buf))

(* The weight follows the password, on the wire and, as the host orders    *)
(* it, in the struct; it is read before the names are checked.             *)
Weight(buf) ==
    LET at == Data + username_len(buf) + password_len(buf)
    IN  <<Cell(buf, at + 1), Cell(buf, at)>>

-----------------------------------------------------------------------------
(* The three validations: which requests get past all their early returns. *)
ValidLogin(buf) ==
    LengthsFit(buf) /\ BothGood(buf, BothNames(buf) \o <<0>>)

ValidUserDel(buf) ==
    /\ username_len(buf) <= MAX_NAME_SIZE
    /\ GoodString(Copied(buf, Data, username_len(buf)) \o <<0>>, 1,
                  username_len(buf))

ValidLinkAdd(buf) ==
    LengthsFit(buf) /\ BothGood(buf, BothNames(buf) \o Weight(buf) \o <<0>>)

(* "valid" is passed on to be sorted, "error" is answered with             *)
(* UNKNOWN_ERROR, and "ignored" is an opcode that no branch takes.         *)
process_data(buf) ==
    LET Verdict(valid) == IF valid THEN "valid" ELSE "error" IN
    CASE opcode(buf) \in LoginOpcodes   -> Verdict(ValidLogin(buf))
      [] opcode(buf) \in UserDelOpcodes -> Verdict(ValidUserDel(buf))
      [] opcode(buf) \in LinkAddOpcodes -> Verdict(ValidLinkAdd(buf))
      [] OTHER                          -> "ignored"

-----------------------------------------------------------------------------
(* The reference: the announced lengths are allowed and every announced    *)
(* character is there and printable.                                       *)
Names(buf) ==
    IF opcode(buf) \in UserDelOpcodes THEN <<username_len(buf)>>
    ELSE <<username_len(buf), password_len(buf)>>

WellFormed(buf) ==
    LET n == Names(buf) IN
    /\ \A i \in DOMAIN n : n[i] <= MAX_NAME_SIZE
    /\ \A k \in 1..IF Len(n) = 1 THEN n[1] ELSE n[1] + n[2] :
          Cell(buf, Data + k - 1) \in Printable

(* A name that fills its field has no NUL of its own: what lies behind it  *)
(* in the struct must be a NUL, or it is read as a part of the name.       *)
RoomForNul(buf) ==
    /\ Len(Names(buf)) = 2 /\ username_len(buf) = FieldSize
         => password_len(buf) = 0
    /\ opcode(buf) \in LinkAddOpcodes /\ password_len(buf) = FieldSize
         => Weight(buf)[1] = 0

(* A request is let through exactly if it is well formed and its names are *)
(* terminated in the struct; one shorter than it announces never is.       *)
ExactFor(buf) ==
    process_data(buf) = "valid" <=>
        /\ opcode(buf) \in LoginOpcodes \cup UserDelOpcodes \cup LinkAddOpcodes
        /\ WellFormed(buf)
        /\ RoomForNul(buf)
=============================================================================

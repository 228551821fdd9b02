---------------------------- MODULE HashFunction ----------------------------
(***************************************************************************)
(* hashFunction of src/hashtable.c on strings given as their character     *)
(* codes.  All codes are taken to be positive, as ASCII's are.             *)
(***************************************************************************)
EXTENDS Integers, Sequences

INT16_MAX == 32767

(* factor when the character at index i is reached.                        *)
factor[i \in Nat] ==
    IF i = 0 THEN 31
    ELSE ((factor[i - 1] % INT16_MAX) * (31 % INT16_MAX)) % INT16_MAX

hashFunction(key, capacity) ==
    LET sum[n \in 0..Len(key)] ==
          IF n = 0 THEN 0
          ELSE ((sum[n - 1] % capacity) + ((key[n] * factor[n - 1]) % capacity))
                 % capacity
    IN  sum[Len(key)]
=============================================================================

----------------------------- MODULE DataValues -----------------------------
(***************************************************************************)
(* The values of module data and of application parameters                 *)
(* (type_definitions.c): a C union with a type beside it.  In the          *)
(* datastore the value is a text of a YANG union, and libyang gives it the *)
(* first member type of the union that accepts the text, whatever type it  *)
(* was written with; the reader then looks at the member of the C union    *)
(* that belongs to the type stored beside the value.                       *)
(*                                                                         *)
(* A text is a number, one of the words true and false, some other word    *)
(* that happens to be base64, or any other text.  A value of type BINARY,  *)
(* STRING, INSTANCE_IDENTIFIER or DECIMAL64 is a text, one of type BOOLEAN *)
(* a Boolean, the others are integers.                                     *)
(***************************************************************************)
EXTENDS Datastore

Pointers == {"BINARY", "STRING", "INSTANCE_IDENTIFIER"}

Bits == [INT8 |-> 8, INT16 |-> 16, INT32 |-> 32, INT64 |-> 64,
         UINT8 |-> 8, UINT16 |-> 16, UINT32 |-> 32, UINT64 |-> 64]

Number(n) == [kind |-> "number", n |-> n]
Word(k)   == [kind |-> k, n |-> 0]   \* k: "true", "false", "base64", "plain", "decimal"

\* What sysrepo prints for a value of the given type.
TextOf(type, value) ==
    CASE type = "BOOLEAN"      -> Word(IF value THEN "true" ELSE "false")
      [] type \in DOMAIN Bits  -> Number(value)
      [] OTHER                 -> value

\* The member types of the YANG union in their order: binary takes every
\* text of base64 characters whose length is a multiple of four, so also
\* "true" and the numbers of four digits; then boolean; then the smallest
\* signed integer; string takes the rest, a decimal number included.
\* (None of the numbers of the model has eight digits or more.)
MemberOfNumber(n) ==
    IF 1000 <= n /\ n <= 9999 THEN "BINARY"
    ELSE IF -128 <= n /\ n < 128 THEN "INT8"
    ELSE IF -32768 <= n /\ n < 32768 THEN "INT16" ELSE "INT32"

MemberOf(text) ==
    CASE text.kind \in {"true", "base64"}   -> "BINARY"
      [] text.kind = "false"                -> "BOOLEAN"
      [] text.kind \in {"plain", "decimal"} -> "STRING"
      [] text.kind = "number"               -> MemberOfNumber(text.n)

\* A number read from a union member of fewer or more bits.
Narrow(type, n) ==
    IF Bits[type] > 16 THEN n
    ELSE LET low == n % 2^Bits[type]
         IN IF type \in {"INT8", "INT16"} /\ low >= 2^(Bits[type] - 1)
            THEN low - 2^Bits[type] ELSE low

\* A pointer read from the member of a number or a Boolean is a small
\* number: strdup and strtod follow it.
ReadPointer(text) == IF MemberOf(text) \in {"BINARY", "STRING"} THEN text ELSE Crash

\* sysrepo_data_to_data_value: sr_val_t has whatever bytes malloc left above
\* a smaller member.
ReadItemValue(type, text) ==
    LET member == MemberOf(text)
    IN CASE type \in Pointers \cup {"DECIMAL64"} -> ReadPointer(text)
         [] type = "BOOLEAN"  -> IF member = "BOOLEAN" THEN FALSE ELSE Undefined
         [] OTHER             -> IF member \in {"BINARY", "STRING", "BOOLEAN"}
                                    \/ Bits[member] < Bits[type]
                                 THEN Undefined ELSE Narrow(type, text.n)

\* lyd_data_to_data_value: the bytes above a smaller member are zero, so a
\* negative number loses its sign; an instance identifier is not read.
ReadSubtreeValue(type, text) ==
    LET member == MemberOf(text)
    IN CASE type = "INSTANCE_IDENTIFIER"     -> Undefined
         [] type \in {"BINARY", "STRING", "DECIMAL64"} -> ReadPointer(text)
         [] type = "BOOLEAN"  -> IF member = "BOOLEAN" THEN FALSE ELSE Undefined
         [] OTHER ->
                IF member \in {"BINARY", "STRING", "BOOLEAN"} THEN Undefined
                ELSE IF Bits[member] < Bits[type] /\ text.n < 0
                     THEN text.n + 2^Bits[member]
                     ELSE Narrow(type, text.n)
=============================================================================

----------------------------- MODULE IntegerTypes -----------------------------
(* The integer types of the program. *)

Types    == {"u8", "u16", "u32", "u64", "i8", "i16", "i32", "i64"}
Signed   == {"i8", "i16", "i32", "i64"}
Unsigned == {"u8", "u16", "u32", "u64"}
=============================================================================

---------------------------- MODULE MsgpackFormat ----------------------------
(***************************************************************************)
(* The codes of MessagePack: mod magick of ser-write-msgpack/src/lib.rs.   *)
(***************************************************************************)
EXTENDS Integers

Byte      == 0..255
PosFixInt == 0..127
FIXMAP    == 128
FixMap    == FIXMAP..(FIXMAP + 15)
FIXARRAY  == 144
FixArray  == FIXARRAY..(FIXARRAY + 15)
FIXSTR    == 160
FixStr    == FIXSTR..(FIXSTR + 31)
NIL       == 192
RESERVED  == 193
FALSE_    == 194
TRUE_     == 195
BIN_8     == 196
BIN_16    == 197
BIN_32    == 198
EXT_8     == 199
EXT_16    == 200
EXT_32    == 201
FLOAT_32  == 202
FLOAT_64  == 203
UINT_8    == 204
UINT_16   == 205
UINT_32   == 206
UINT_64   == 207
INT_8     == 208
INT_16    == 209
INT_32    == 210
INT_64    == 211
FIXEXT_1  == 212
FIXEXT_2  == 213
FIXEXT_4  == 214
FIXEXT_8  == 215
FIXEXT_16 == 216
STR_8     == 217
STR_16    == 218
STR_32    == 219
ARRAY_16  == 220
ARRAY_32  == 221
MAP_16    == 222
MAP_32    == 223
NegFixInt == 224..255

FixInt  == PosFixInt \cup NegFixInt
BinLong == {BIN_8, BIN_16, BIN_32}
ExtLong == {EXT_8, EXT_16, EXT_32}
Str     == FixStr \cup {STR_8, STR_16, STR_32}
Array   == FixArray \cup {ARRAY_16, ARRAY_32}
Map     == FixMap \cup {MAP_16, MAP_32}
Integer == FixInt \cup (UINT_8..INT_64)
Float   == {FLOAT_32, FLOAT_64}
FixExt  == FIXEXT_1..FIXEXT_16
=============================================================================

---------------------------- MODULE ObjectSizes ----------------------------
(***************************************************************************)
(* The sizes that the recorder gives to objects: headers by the width of   *)
(* an identifier, fields by their type, everything rounded up.             *)
(***************************************************************************)
EXTENDS Naturals

OBJECT_ALIGN == 8

next_multiple_of(n, m) == ((n + m - 1) \div m) * m

primitive_byte_size(type) ==
  CASE type \in {"Byte", "Bool"}   -> 1
    [] type \in {"Char", "Short"}  -> 2
    [] type \in {"Float", "Int"}   -> 4
    [] type \in {"Double", "Long"} -> 8

field_size(type, id_size) == IF type = "Object" THEN id_size ELSE primitive_byte_size(type)

\* Only 4 and 8 get past slurp_header.
object_header_size(id_size) == IF id_size = 4 THEN 8 ELSE 16
array_header_size(id_size)  == IF id_size = 4 THEN 12 ELSE 16

primitive_array_size(id_size, type, n) ==
  next_multiple_of(array_header_size(id_size) + primitive_byte_size(type) * n, OBJECT_ALIGN)

object_array_size(id_size, n) ==
  next_multiple_of(array_header_size(id_size) + id_size * n, OBJECT_ALIGN)
=============================================================================

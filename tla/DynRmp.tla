------------------------------- MODULE DynRmp -------------------------------
(***************************************************************************)
(* MessagePack as zzping-lib writes it and zzping-lib/src/dynrmp reads it. *)
(* A file is a sequence of atoms: a marker, with the value it holds if it  *)
(* holds one, or the data behind a marker. A file that was cut may end     *)
(* between the two. The widths of integers, strings, arrays and maps are   *)
(* one each, since they are handled alike.                                 *)
(***************************************************************************)
EXTENDS Integers, Sequences, SequencesExt

\* The integers that fit into their marker: 127 and -32 in the format.
FixPosMax == 3
FixNegMin == -2

Marker(m, v) == [m |-> m, v |-> v]
Data(v) == [m |-> "data", v |-> v]

-----------------------------------------------------------------------------
(* Writing (external: the crate rmp).                                      *)

WriteUint(n) ==
  IF n <= FixPosMax THEN <<Marker("FixPos", n)>> ELSE <<Marker("U", 0), Data(n)>>
WriteSint(n) ==
  IF n >= FixNegMin THEN <<Marker("FixNeg", n)>> ELSE <<Marker("I", 0), Data(n)>>
WriteNil == <<Marker("Null", 0)>>
WriteBool(b) == <<Marker(IF b THEN "True" ELSE "False", 0)>>
WriteStr(s) == <<Marker("Str", 0), Data(s)>>
WriteF64(x) == <<Marker("F64", 0), Data(x)>>
WriteArrayLen(n) == <<Marker("Array", n)>>
WriteMapLen(n) == <<Marker("Map", n)>>

-----------------------------------------------------------------------------
(* The result of a read at a place of a file: a value and the place behind *)
(* it, or an error. Only a missing marker is DError::IOError, "eof".       *)

Got(type, v, pos) == [ok |-> TRUE, type |-> type, v |-> v, pos |-> pos]
Failed(err) == [ok |-> FALSE, err |-> err]

\* What the question mark does.
Then(r, Next(_)) == IF r.ok THEN Next(r) ELSE r

\* VType::from_marker. Markers that are not listed are reserved.
FromMarker(m) ==
  CASE m \in {"FixPos", "FixNeg", "U", "I"} -> "Integer"
    [] m \in {"True", "False"} -> "Bool"
    [] m = "Str" -> "String"
    [] m = "F64" -> "Float"
    [] m \in {"Null", "Array", "Map"} -> m
    [] m = "Bin" -> "Binary"
    [] m = "Ext" -> "Extension"
    [] OTHER -> "Reserved"

\* The functions of rmp read the marker, which PrefixRead serves again, and the
\* data behind it.
ReadData(type, file, pos) ==
  IF pos < Len(file) THEN Got(type, file[pos + 1].v, pos + 2) ELSE Failed("value")

\* read_int: a fixed value is in the marker.
ReadInt(file, pos) ==
  IF file[pos].m \in {"FixPos", "FixNeg"} THEN Got("Integer", file[pos].v, pos + 1)
  ELSE ReadData("Integer", file, pos)

\* n variants one behind the other, each read with inner, a function of places.
ReadRow(pos, n, inner) ==
  LET row[i \in 0 .. n] ==
        IF i = 0 THEN [ok |-> TRUE, items |-> <<>>, pos |-> pos]
        ELSE Then(row[i - 1], LAMBDA r : Then(inner[r.pos], LAMBDA x :
               [ok |-> TRUE, items |-> Append(r.items, x), pos |-> x.pos]))
  IN row[n]

\* read_array.
ReadArray(file, pos, inner) ==
  Then(ReadRow(pos + 1, file[pos].v, inner), LAMBDA r :
    Got("Array", [i \in DOMAIN r.items |-> r.items[i].v], r.pos))

\* read_map: keys, each with its value behind it. Of two equal keys the later
\* counts.
ReadMap(file, pos, inner) ==
  Then(ReadRow(pos + 1, 2 * file[pos].v, inner), LAMBDA r :
    LET Key(i) == r.items[2 * i - 1].v IN
    Got("Map", [k \in {Key(i) : i \in 1 .. file[pos].v} |->
                  r.items[2 * Max({i \in 1 .. file[pos].v : Key(i) = k})]], r.pos))

\* read_from_marker. read_bin_len and read_ext_meta ask rmp for an integer where
\* PrefixRead serves their own marker, so no binary and no extension can be read.
ReadFromMarker(file, pos, inner) ==
  LET type == FromMarker(file[pos].m) IN
    CASE type = "Integer" -> ReadInt(file, pos)
      [] type \in {"Float", "String"} -> ReadData(type, file, pos)
      [] type = "Bool" -> Got("Bool", file[pos].m = "True", pos + 1)
      [] type = "Null" -> Got("Null", 0, pos + 1)
      [] type = "Array" -> ReadArray(file, pos, inner)
      [] type = "Map" -> ReadMap(file, pos, inner)
      [] OTHER -> Failed("value")

\* Variant::read, which is called for the parts of a variant, too: they are not
\* nested deeper than the file has markers.
Read(file, pos) ==
  LET reader[depth \in 0 .. Len(file)] ==
        [p \in 1 .. Len(file) + 1 |->
           IF p > Len(file) THEN Failed("eof")
           ELSE ReadFromMarker(file, p, IF depth = 0 THEN <<>> ELSE reader[depth - 1])]
  IN reader[Len(file)][pos]

\* rmp::decode::read_int, which is no variant: a missing marker is an error
\* like any other.
ReadRmpInt(file, pos) ==
  IF pos <= Len(file) /\ FromMarker(file[pos].m) = "Integer"
  THEN ReadInt(file, pos) ELSE Failed("value")
=============================================================================

------------------------------- MODULE FileMap --------------------------------
(***************************************************************************)
(* The file that maps the hashes of file names back to the names, which    *)
(* the viewer and mt_decode.py load each in its own way.  A line has a     *)
(* hash (id) and the words of a path; a line without words is one that     *)
(* neither takes for an entry (a comment, an empty line).  Lengths are     *)
(* left out: the viewer keeps 127 characters of a path.                    *)
(***************************************************************************)
EXTENDS Naturals, SequencesExt

Unnamed == <<>>

(* A line that is an entry of the hash id *)
IsEntry(l, id) == l.words # <<>> /\ l.id = id

(* mtv1_filemap_load keeps every entry with the first word of its path;    *)
(* mtv1_filemap_lookup takes the first one of the hash.  Without one        *)
(* mtv1_filemap_format writes the hash itself.                              *)
MapLookup(lines, id) ==
  LET k == SelectInSeq(lines, LAMBDA l : IsEntry(l, id))
  IN  IF k = 0 THEN Unnamed ELSE SubSeq(lines[k].words, 1, 1)

(* load_filemap keeps one path for each hash, that of its last entry, with *)
(* all its words; format_file_and_line looks it up.                        *)
ScriptLookup(lines, id) ==
  LET k == SelectLastInSeq(lines, LAMBDA l : IsEntry(l, id))
  IN  IF k = 0 THEN Unnamed ELSE lines[k].words
=============================================================================

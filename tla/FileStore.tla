------------------------------ MODULE FileStore ------------------------------
(***************************************************************************)
(* One record of the file store: the file at its path, the temporary file  *)
(* beside it, and what each goroutine inside WriteBytes holds open.        *)
(*                                                                         *)
(* All writers of a record share one temporary file.  A writer opens it    *)
(* and truncates it, fills it, closes it and renames it to the path; a     *)
(* writer that still holds the file open when somebody else renames it     *)
(* goes on to write into the file at the path.  The file system is the one *)
(* of POSIX, and no operation of it is lost in a crash of the process.     *)
(***************************************************************************)
CONSTANTS Writers,  \* the goroutines that write
          Missing,  \* there is no such file
          Torn      \* a file that holds no complete record

\* What a writer holds open: nothing, the temporary file, the file at the
\* path, or a file that a later rename replaced.
Handles == {"closed", "tmp", "path", "gone"}

Contents(Records) == Records \cup {Missing, Torn}

Files(Records) == [path : Contents(Records), tmp : Contents(Records),
                   at : [Writers -> Handles]]

FileWith(content) ==
  [path |-> content, tmp |-> Missing, at |-> [w \in Writers |-> "closed"]]

Decodes(f) == f.path \notin {Missing, Torn}

\* Seeded fault: the record is written where it stands.
TruncateInPlace(f, w) == [f EXCEPT !.path = Torn, !.at[w] = "path"]

\* os.WriteFile opens with O_TRUNC; what others wrote into the file is gone.
Truncate(f, w) == [f EXCEPT !.tmp = Torn, !.at[w] = "tmp"]

\* A writer starts at offset 0 of a file another one may have filled: a
\* shorter record leaves the end of a longer one behind.
Overlay(old, record) ==
  IF old \in {Missing, Torn, record} THEN {record} ELSE {record, Torn}

\* The files that w, filling what it has open and closing it, may leave.
Fill(f, w, record) ==
  LET g == [f EXCEPT !.at[w] = "closed"]
  IN  CASE f.at[w] = "tmp"  -> {[g EXCEPT !.tmp = c] : c \in Overlay(f.tmp, record)}
        [] f.at[w] = "path" -> {[g EXCEPT !.path = c] : c \in Overlay(f.path, record)}
        [] OTHER            -> {g}

\* The write failed (the disk is full): the file stays truncated.
Abandon(f, w) == [f EXCEPT !.at[w] = "closed"]

\* Somebody else renamed the temporary file already: Rename returns an error.
RenameFails(f) == f.tmp = Missing

Renamed(h) == CASE h = "tmp"  -> "path"
                [] h = "path" -> "gone"
                [] OTHER      -> h

Rename(f) == [path |-> f.tmp, tmp |-> Missing,
              at |-> [w \in Writers |-> Renamed(f.at[w])]]

\* The process ends: what was open is closed.
CloseAll(f) == [f EXCEPT !.at = [w \in Writers |-> "closed"]]
=============================================================================

----------------------------- MODULE CacheFiles -----------------------------
(***************************************************************************)
(* The files of Catnip's cache directory and the four calls the caches     *)
(* make on them: std::fs::write (open with truncation, then the bytes),    *)
(* rename and remove_file.  An entry of key k is the file Entry(k); it is  *)
(* always written through Tmp(k) and a rename (`with_extension("tmp")`).   *)
(* A process that has the file open follows the FILE, not its name: a      *)
(* rename moves the open file with it and a removal leaves it nameless.    *)
(***************************************************************************)
CONSTANTS Keys,     \* cache keys
          Procs,    \* processes that share the directory
          Absent,   \* there is no file of that name
          Empty     \* the file was created or truncated, its bytes are not there yet

VARIABLES file,     \* what each name holds: Absent, Empty or an entry
          fd        \* the name of the file each process has open for writing

Entry(k) == <<k, "entry">>
TmpInPlace(k) == <<k, "entry">>     \* fault: written in place
Tmp(k)   == <<k, "tmp">>
Names    == Keys \X {"entry", "tmp"}
Nameless == <<>>    \* no open file, or one that has lost its name

\* No key has a file: the directory as create_dir_all leaves it.
EmptyDirectory == /\ file = [n \in Names |-> Absent]
                  /\ fd = [p \in Procs |-> Nameless]

Listing == {n \in Names : file[n] # Absent}        \* fs::read_dir

\* fs::write, first half: open(O_CREAT | O_TRUNC).
OpenTmp(p, k) == /\ file' = [file EXCEPT ![Tmp(k)] = Empty]
                 /\ fd' = [fd EXCEPT ![p] = Tmp(k)]

\* fs::write, second half: the bytes, then close.
WriteBytes(p, content) ==
    /\ file' = IF fd[p] = Nameless THEN file ELSE [file EXCEPT ![fd[p]] = content]
    /\ fd' = [fd EXCEPT ![p] = Nameless]

\* fs::rename(tmp, entry): whoever writes the tmp file now writes the entry.
RenameTmp(k) ==
    /\ file' = [file EXCEPT ![Entry(k)] = file[Tmp(k)], ![Tmp(k)] = Absent]
    /\ fd' = [p \in Procs |-> IF fd[p] = Tmp(k) THEN Entry(k)
                              ELSE IF fd[p] = Entry(k) THEN Nameless ELSE fd[p]]

\* fs::remove_file.
RemoveFile(n) ==
    /\ file' = [file EXCEPT ![n] = Absent]
    /\ fd' = [p \in Procs |-> IF fd[p] = n THEN Nameless ELSE fd[p]]

\* The process dies: the kernel closes its file.
CloseFile(p) == /\ fd' = [fd EXCEPT ![p] = Nameless]
                /\ UNCHANGED file
=============================================================================

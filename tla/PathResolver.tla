---------------------------- MODULE PathResolver ----------------------------
(***************************************************************************)
(* fs/path_resolver.c, after path_resolver_init.  A path is the sequence   *)
(* of the strings between its slashes: <<"a", "b">> is a/b, <<"", "a">> is *)
(* /a, <<"", "">> is / and <<"">> the empty path, so that a slash between  *)
(* two paths is concatenation.  Paths are shorter than the buffers.        *)
(***************************************************************************)
EXTENDS Integers, Sequences, SequencesExt

CONSTANTS Rootfs,    \* g_rootfs, an absolute path without a slash at its end
          MaxParts,  \* the 128 parts path_normalize has room for
          Sibling    \* a name that begins with that of the rootfs's directory
                     \* and the rest of it, as [name |-> "rx", rest |-> "x"]

ASSUME PathAssumption ==
    /\ MaxParts \in Nat \ {0}
    /\ Rootfs \in Seq(Range(Rootfs)) /\ Len(Rootfs) > 1 /\ Head(Rootfs) = ""

Root        == <<"", "">>
Fails       == <<"fails">>
IsAbs(path) == Len(path) > 1 /\ Head(path) = ""
From(path, i) == SubSeq(path, i, Len(path))

(* Mutant: ".." is skipped like ".". *)
CollapseKeeps(parts, s) == IF s \in {"", ".", ".."} THEN parts ELSE Append(parts, s)

(* A turn of path_normalize's loop; strtok skips the empty strings. *)
Collapse(parts, s) ==
    CASE s \in {"", "."} -> parts
      [] s = ".."        -> IF parts = <<>> THEN parts ELSE Front(parts)
      [] OTHER           -> Append(parts, s)

(* The loop ends when there is room for no more parts. *)
CollapseNext(parts, s) == IF Len(parts) = MaxParts THEN parts ELSE Collapse(parts, s)
Parts(path) == FoldLeft(CollapseNext, <<>>, path)

(* path_normalize *)
Normalize(path) ==
    LET parts == Parts(path)
    IN  IF parts = <<>> THEN (IF IsAbs(path) THEN Root ELSE <<"">>)
        ELSE IF IsAbs(path) THEN <<"">> \o parts ELSE parts

(* path_guest_to_host *)
GuestToHost(path) ==
    LET normal == Normalize(path)
        host   == Rootfs \o (IF IsAbs(normal) THEN Tail(normal) ELSE normal)
    IN  IF IsPrefix(Rootfs, host) THEN host ELSE Fails

(* path_host_to_guest compares characters, not whole names: a sibling of   *)
(* the rootfs is taken for a path in it.                                   *)
HostToGuest(path) ==
    LET n == Len(Rootfs)
    IN  CASE path = Rootfs          -> Root
          [] IsStrictPrefix(Rootfs, path) -> <<"">> \o From(path, n + 1)
          [] ~IsPrefix(Rootfs, path) /\ IsPrefix(Front(Rootfs) \o <<Sibling.name>>, path) ->
                 <<Sibling.rest>> \o From(path, n + 1)
          [] OTHER                  -> Fails

(* path_join: an absolute path replaces the base and is not normalized. *)
Join(base, rel) ==
    IF IsAbs(rel) THEN rel
    ELSE IF Len(base) > 1 /\ Last(base) = "" THEN Normalize(Front(base) \o rel)
    ELSE Normalize(base \o rel)

(* path_basename; the name after a slash at the end is that slash. *)
Basename(path) ==
    IF Len(path) = 1 THEN path ELSE IF Last(path) = "" THEN Root ELSE <<Last(path)>>

(* path_dirname *)
Dirname(path) ==
    IF Len(path) = 1 THEN <<".">> ELSE IF Len(path) = 2 /\ IsAbs(path) THEN Root ELSE Front(path)
=============================================================================

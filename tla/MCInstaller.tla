----------------------------- MODULE MCInstaller -----------------------------
(* Archives for TLC: "old" and "new" hold a sing-box and another member, in  *)
(* "unsafe" a name leaves the directory; "p", "q" and "x" are plain files.   *)
EXTENDS Installer

MCContents == {"old", "new", "unsafe", "p", "q", "x"}
MCNames == {"sing-box", "alt", "../up"}
MCUnsafeNames == {"../up"}
MCBinaryNames == {"sing-box"}
MCArchive == [c \in Contents |->
    CASE c = "old" -> <<<<"alt", "q">>, <<"sing-box", "p">>>>
      [] c = "new" -> <<<<"sing-box", "x">>, <<"alt", "p">>>>
      [] c = "unsafe" -> <<<<"sing-box", "q">>, <<"../up", "x">>>>
      [] OTHER -> None]
MCBuiltinRules == [n \in Names |-> CASE n = "sing-box" -> "p" [] n = "alt" -> "q" [] OTHER -> None]

(* The commands a small installation meets: the built-in sources, a source   *)
(* of one's own with a checksum, a member or neither, and both ways to       *)
(* uninstall.                                                                *)
Command(operation, resource, source, sha, member, purge) ==
    [operation |-> operation, resource |-> resource, source |-> source, sha |-> sha,
     member |-> member, purge |-> purge]

MCRequests ==
    {Command(o, r, "builtin", None, None, FALSE) : o \in {"install", "update"}, r \in {"sing-box", "all"}}
    \cup {Command("install", r, "remote", "new", None, FALSE) : r \in {"sing-box", "rules"}}
    \cup {Command("update", "all", "remote", None, None, FALSE),
          Command("install", "sing-box", "local", None, None, FALSE),
          Command("update", "rules", "local", "unsafe", None, FALSE)}
    \cup {Command("install", "sing-box", "builtin", None, "alt", FALSE)}
    \cup {Command("uninstall", "all", "builtin", None, None, p) : p \in BOOLEAN}
    \cup {Command("uninstall", "sing-box", "builtin", None, None, FALSE)}
=============================================================================

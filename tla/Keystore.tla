------------------------------- MODULE Keystore --------------------------------
(***************************************************************************)
(* The text files of auth/keystore.c as its functions read and write them. *)
(* A file is a sequence of lines, a line the name that is read back and    *)
(* what the hex after it decodes to.  Names are written as they are and    *)
(* read as the first word of a line.  Nothing looks at the result of       *)
(* fclose, so a full disk may cut a line short, and the next one is then   *)
(* written on to its end.                                                  *)
(***************************************************************************)
EXTENDS Naturals, Sequences

CONSTANTS
  FirstWord,  \* the name that sscanf finds on a line that begins with a name
  Split       \* the names with a second word, which takes the place of the salt

Undecodable == "undecodable"   \* hex that ks_hex_decode refuses
OtherName == "other name"      \* what is left of a name, run into what follows
Skipped == "skipped"           \* the first word of a name that begins with '#'

\* How much of a line reaches the disk.
Cuts == {"whole", "newline", "rest", "name", "nothing"}

\* A name is read back as it was written if it is one word and no comment.
Plain(name) == FirstWord[name] = name
ASSUME NameAssumption ==
  /\ \A n \in DOMAIN FirstWord :
       /\ FirstWord[n] \in DOMAIN FirstWord => Plain(FirstWord[n])
       /\ n \in Split => ~Plain(n)
  /\ {OtherName, Skipped} \cap DOMAIN FirstWord = {}

\* A line as it is read back, whose first cut bytes reach the disk.  A name that
\* is cut short is taken for nobody's.
Line(name, value, cut) ==
  [name |-> IF cut = "name" THEN OtherName ELSE FirstWord[name],
   value |-> IF cut \in {"whole", "newline"} /\ name \notin Split THEN value ELSE Undecodable,
   cut |-> cut]

\* The text of a line behind one that was cut: only where there is nothing but
\* part of a name do the fields of the new line keep their places.
Joined(last, line) ==
  [name |-> last.name, cut |-> line.cut,
   value |-> IF last.cut = "name" /\ last.name = OtherName THEN line.value ELSE Undecodable]

\* fprintf to a file opened for append, and fclose.
Torn(file) == file # <<>> /\ file[Len(file)].cut # "whole"
AppendLine(file, name, value, cut) ==
  IF cut = "nothing" THEN file
  ELSE IF Torn(file)
    THEN [file EXCEPT ![Len(file)] = Joined(@, Line(name, value, cut))]
  ELSE Append(file, Line(name, value, cut))

PasswdAdd(file, user, password, cut) == AppendLine(file, user, password, cut)
KnownHostAdd(file, host, pk, cut) == AppendLine(file, host, pk, cut)

\* The lines that a scan for a name stops at, and the first of them.
Matches(file, name) ==
  {i \in 1..Len(file) : file[i].name = name /\ file[i].value # Undecodable}
First(S) == CHOOSE i \in S : \A j \in S : i <= j

\* ks_user_exists looks at the first word only.
UserExists(file, user) == \E i \in 1..Len(file) : file[i].name = user

\* Mutant of CheckPassword: a later line replaces an earlier one.
CheckLastPassword(file, user, password) ==
  LET m == Matches(file, user)
  IN  m # {} /\ file[CHOOSE i \in m : \A j \in m : j <= i].value = password

CheckPassword(file, user, password) ==
  LET m == Matches(file, user) IN m # {} /\ file[First(m)].value = password

\* ks_authorized_key: every line of the user counts.
AuthorizedKey(file, user, pk) == \E i \in Matches(file, user) : file[i].value = pk

\* ks_known_host: only the first line of the host counts.
KnownHost(file, host, pk) ==
  LET m == Matches(file, host)
  IN  IF m = {} THEN "UNKNOWN" ELSE IF file[First(m)].value = pk THEN "MATCH" ELSE "CHANGED"

\* ks_host_key: the file as it is, or the new key as much of it as is written.
HostKey(file, new, cut) ==
  IF file # "absent" THEN file ELSE IF cut = "whole" THEN new ELSE "broken"

\* ks_keyfile_generate, for an empty passphrase or another: the file that is left
\* as its readers see it.  The secret key is the last line: where that line is
\* missing keyfile_scan refuses the file ("none"), and where it is short
\* ("torn") the file still says that it is sealed.
KeyfileGenerate(empty, cut) ==
  CASE cut \in {"whole", "newline"} -> IF empty THEN "plain" ELSE "sealed"
    [] cut = "rest" /\ ~empty -> "torn"
    [] OTHER -> "none"

\* ks_keyfile_encrypted and ks_keyfile_load of an identity file.
KeyfileEncrypted(file) == file \in {"sealed", "torn"}
KeyfileLoad(file, passphrase) == file = "plain" \/ (file = "sealed" /\ passphrase = "right")
================================================================================

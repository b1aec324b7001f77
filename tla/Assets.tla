------------------------------- MODULE Assets -------------------------------
(***************************************************************************)
(* The files of the GUI, embedded in fs.go, as http.FileServer asks for    *)
(* them.  An asset is decoded by the first request for it, inside a        *)
(* sync.Once; requests that come meanwhile wait, later ones use the result.*)
(* With -use-local the files on disk are opened instead, but only those    *)
(* that are embedded, too.                                                 *)
(***************************************************************************)
EXTENDS Integers, FiniteSets

CONSTANTS Readers,    \* goroutines of the http server
          Requested,  \* the paths asked for
          Corrupt,    \* assets whose embedded text does not decode
          NoFile

Dirs == {"/", "/css", "/images", "/js"}
EscData ==
  Dirs \cup {"/css/bootstrap-theme.min.css", "/css/bootstrap.min.css",
             "/css/style.css", "/images/favicon.png", "/index.html",
             "/js/app.js", "/js/bootstrap.min.js", "/js/clipboard.min.js",
             "/js/jquery.min.js", "/js/lodash.min.js", "/js/vue.min.js"}

Index == "/index.html"   \* a request for it is redirected to "/"

AssetsAssumption ==
  /\ Corrupt \subseteq EscData \ Dirs
  /\ NoFile \notin EscData /\ Index \notin Requested

VARIABLES useLocal,  \* the flag
          once,      \* f.once of an asset: "new", "busy", "done"
          data,      \* f.data: "nil", "part", "full"
          at,        \* where a reader is
          name,      \* the file it asks for
          answers    \* history: what was answered for a path

vars == <<useLocal, once, data, at, name, answers>>

Answer == {"full",         \* 200, the asset
           "part", "nil",  \* 200, with the asset's length announced and only
                           \* that much of it sent: the browser sees it break off
           "listing",                \* 200, an empty directory listing
           "absent", "error"}

Init ==
  /\ useLocal \in BOOLEAN
  /\ once = [f \in EscData |-> "new"] /\ data = [f \in EscData |-> "nil"]
  /\ at = [r \in Readers |-> "idle"] /\ name = [r \in Readers |-> NoFile]
  /\ answers = {}

\* What FileServer looks for in a directory.
IndexOf(d) == IF d = "/" THEN Index ELSE NoFile

Reply(r, a) ==
  /\ at' = [at EXCEPT ![r] = "idle"] /\ name' = [name EXCEPT ![r] = NoFile]
  /\ answers' = answers \cup {<<name[r], a>>}

\* Open failed: FileServer lists the directory if this was for its index.
OpenFailed(r, a) == Reply(r, IF name[r] = Index THEN "listing" ELSE a)

\* A directory that is open: FileServer tries its index.html, and lists the
\* directory (Readdir returns nothing) if there is none.
TryIndex(r) ==
  IF IndexOf(name[r]) \in EscData
  THEN /\ name' = [name EXCEPT ![r] = IndexOf(name[r])]
       /\ at' = [at EXCEPT ![r] = "open"] /\ UNCHANGED answers
  ELSE Reply(r, "listing")

Request(r, f) ==
  /\ at[r] = "idle"
  /\ at' = [at EXCEPT ![r] = "open"] /\ name' = [name EXCEPT ![r] = f]
  /\ UNCHANGED <<useLocal, once, data, answers>>

Present(f) == f \in EscData

\* Both Opens, of a path without an entry: os.ErrNotExist.
NotPresent(r) ==
  /\ at[r] = "open" /\ ~Present(name[r])
  /\ OpenFailed(r, "absent")
  /\ UNCHANGED <<useLocal, once, data>>

\* _escLocalFS.Open; the file may be missing on disk.
OpenLocal(r) ==
  /\ useLocal /\ at[r] = "open" /\ Present(name[r])
  /\ \/ name[r] \in Dirs /\ TryIndex(r)
     \/ name[r] \notin Dirs /\ Reply(r, "full")
     \/ OpenFailed(r, "absent")
  /\ UNCHANGED <<useLocal, once, data>>

MutEnter(r) ==   \* a flag, set when the decoding begins
  /\ ~useLocal /\ at[r] = "open" /\ Present(name[r])
  /\ once' = [once EXCEPT ![name[r]] = "done"]
  /\ at' = [at EXCEPT ![r] = IF once[name[r]] = "done" THEN "file" ELSE "decode"]
  /\ UNCHANGED <<useLocal, data, name, answers>>

\* prepare calls f.once.Do: the first runs the function, the others wait for
\* it to return and go on with err = nil.
Enter(r) ==
  /\ ~useLocal /\ at[r] = "open" /\ Present(name[r])
  /\ once[name[r]] # "busy"
  /\ at' = [at EXCEPT ![r] = IF once[name[r]] = "done" THEN "file" ELSE "decode"]
  /\ once' = [once EXCEPT ![name[r]] = IF @ = "new" THEN "busy" ELSE @]
  /\ UNCHANGED <<useLocal, data, name, answers>>

MutDecode(r) ==   \* a lock that is not released on an error
  LET f == name[r] IN
  /\ at[r] = "decode"
  /\ once' = [once EXCEPT ![f] = IF f \in Corrupt THEN "busy" ELSE "done"]
  /\ data' = [data EXCEPT ![f] = IF f \in Dirs \cup Corrupt THEN "nil" ELSE "full"]
  /\ IF f \in Corrupt THEN OpenFailed(r, "error")
     ELSE at' = [at EXCEPT ![r] = "file"] /\ UNCHANGED <<name, answers>>
  /\ UNCHANGED useLocal

\* The function: a directory has size 0 and no data.  err belongs to this call
\* of prepare only; what was decoded before the error stays in f.data.
Decode(r) ==
  LET f == name[r] IN
  /\ at[r] = "decode"
  /\ once' = [once EXCEPT ![f] = "done"]
  /\ IF f \in Corrupt
     THEN (\E part \in {"nil", "part"} : data' = [data EXCEPT ![f] = part])
            /\ OpenFailed(r, "error")
     ELSE /\ data' = [data EXCEPT ![f] = IF f \in Dirs THEN "nil" ELSE "full"]
          /\ at' = [at EXCEPT ![r] = "file"] /\ UNCHANGED <<name, answers>>
  /\ UNCHANGED useLocal

\* f.File(): a reader over f.data, which is served with f.size as its length.
File(r) ==
  /\ at[r] = "file"
  /\ IF name[r] \in Dirs THEN TryIndex(r) ELSE Reply(r, data[name[r]])
  /\ UNCHANGED <<useLocal, once, data>>

Serve(r) == NotPresent(r) \/ OpenLocal(r) \/ Enter(r) \/ Decode(r) \/ File(r)

Next == \E r \in Readers : Serve(r) \/ \E f \in Requested : Request(r, f)

-----------------------------------------------------------------------------

TypeOK ==
  /\ useLocal \in BOOLEAN
  /\ once \in [EscData -> {"new", "busy", "done"}]
  /\ data \in [EscData -> {"nil", "part", "full"}]
  /\ at \in [Readers -> {"idle", "open", "decode", "file"}]
  /\ name \in [Readers -> EscData \cup Requested \cup {NoFile}]
  /\ answers \subseteq (EscData \cup Requested) \X Answer
  /\ \A f \in EscData :
       once[f] = "busy" <=> \E r \in Readers : at[r] = "decode" /\ name[r] = f

\* However many requests race for an asset that nobody has asked for yet,
\* every one of them gets it completely.  If it does not decode, one request
\* is told so, and those after it get a file that breaks off before the length
\* that was announced for it: never all of it, and nobody takes it for good.
AssetWholeOrError ==
  \A f \in EscData \ Dirs, a \in Answer :
    <<f, a>> \in answers =>
      /\ useLocal => a \in {"full", "absent", "listing"}
      /\ ~useLocal /\ f \notin Corrupt => a = "full"
      /\ ~useLocal /\ f \in Corrupt =>
           a # "full" /\ \E e \in {"error", "listing"} : <<f, e>> \in answers
=============================================================================

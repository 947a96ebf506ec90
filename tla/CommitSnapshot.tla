--------------------------- MODULE CommitSnapshot ---------------------------
(***************************************************************************)
(* GitCommitReader.read: from a commit to the snapshot a review works on.  *)
(* Changed entries become diffs within a budget of characters, and the     *)
(* modules that changed Python files import become context within another. *)
(* What cannot be shown must be flagged: the flags decide whether the      *)
(* review may pass.                                                        *)
(*                                                                         *)
(* A change is described by its facets, the aspects in which the two sides *)
(* differ; a rendering by the facets it shows and its length.  Lengths are *)
(* counted in units; a placeholder, a marker or a metadata line is one.    *)
(***************************************************************************)
EXTENDS CommitEntries, Totals, FiniteSets, SequencesExt, FiniteSetsExt

CONSTANTS
  MaxFiles,         \* max_changed_files
  MaxDiff,          \* max_diff_characters
  MaxContext,       \* MAX_CONTEXT_CHARACTERS
  MaxContextFiles,  \* MAX_CONTEXT_FILES
  Entries,          \* the changed entries a commit may have
  MaxEntries,       \* bound: entries of one commit
  Targets,          \* paths an import may name, in their order
  Names,            \* symbols
  MaxRequests       \* bound: requests of one commit

LimitAssumption ==
  /\ MaxFiles \in Nat /\ MaxDiff \in Nat /\ MaxEntries \in Nat
  /\ MaxContext \in Nat /\ MaxContextFiles \in Nat /\ Targets \in Seq(ToSet(Targets))
EntryAssumption == Entries \subseteq {e \in EntryRecords : Possible(e)}

VARIABLES
  pc,
  listed,        \* how many entries the commit has, for the properties
  left,          \* entries not yet read
  remaining,     \* of the budget in hand
  files,         \* what is known of each: [length, hidden, truncated]
  truncated,     \* CommitSnapshot.truncated
  python,        \* changed Python files whose imports are still to be read
  asked,         \* what the imports of those that parse name, for the properties
  requests,      \* the merged requests
  tree,          \* the Python files of the commit's tree
  todo,          \* requested paths that exist and have not been read
  contexts,      \* fragments: [target, symbols, length, truncated]
  ctxTruncated   \* CommitSnapshot.context_truncated
diffVars == <<listed, left, remaining, files, truncated>>
contextVars == <<python, asked, requests, tree, todo, contexts, ctxTruncated>>
vars == <<pc, diffVars, contextVars>>

Whole == {}   \* no names: the whole module

Init ==
  /\ pc = "entries"
  /\ listed = 0 /\ left = 0 /\ remaining = MaxDiff /\ files = <<>> /\ truncated = FALSE
  /\ python = 0 /\ asked = {}
  /\ requests = [t \in {} |-> Whole]
  /\ tree \in SUBSET ToSet(Targets)
  /\ todo = {} /\ contexts = <<>> /\ ctxTruncated = FALSE

\* Any call of git may raise, and so does output that makes no sense.
GitFails ==
  /\ pc \in {"entries", "files", "context"}
  /\ pc' = "failed"
  /\ UNCHANGED <<diffVars, contextVars>>

-----------------------------------------------------------------------------
(* Diffs *)

\* Fault: the first entry over the limit goes unmentioned.
TooMany_OffByOne(n) == n > MaxFiles + 1

TooMany(n)  == n > MaxFiles
LookedAt(n) == Min({n, MaxFiles})

\* _changed_entries, and how many of them are looked at: the rest is dropped.
ListEntries ==
  /\ pc = "entries"
  /\ \E n \in 0 .. MaxEntries :
       /\ listed' = n
       /\ left' = LookedAt(n)
       /\ truncated' = TooMany(n)
  /\ pc' = "files"
  /\ UNCHANGED <<remaining, files, contextVars>>

Sides(e) == {e.old, e.new}
\* A blob over the limit is not read, so it is not known to be binary.
NonBlob(e)  == \E s \in Sides(e) : s.type = "commit"
IsBinary(e) == \E s \in Sides(e) : s.binary
Oversized(e) == \E s \in Sides(e) : s.big
Undecodable(e) == \E s \in Sides(e) : ~s.utf8

\* The aspects in which the two sides differ.
Facets(e) ==
  {f \in {"content", "endings", "bytes", "secret", "code", "mode", "object"} :
     \/ f = "content" /\ (e.text > 0 \/ IsBinary(e) \/ Oversized(e))
     \/ f = "endings" /\ e.eol
     \/ f = "bytes"   /\ Undecodable(e)
     \/ f = "secret"  /\ e.secret
     \/ f = "code"    /\ e.instruction \in {"inline", "bare"}
     \/ f = "mode"    /\ e.mode
     \/ f = "object"  /\ NonBlob(e)}

\* _unified_diff: the changed lines; a metadata line if their endings changed
\* or nothing but bytes did.
UnifiedDiff(e) ==
  [length |-> e.text + (IF e.eol THEN 1 ELSE 0), shows |-> {"content"},
   incomplete |-> Undecodable(e) \/ e.eol]

\* The placeholder, or the diff with what looks like a secret cut out of it.
Body(e) ==
  IF NonBlob(e) THEN [length |-> 1, shows |-> {"object"}, incomplete |-> TRUE]
  ELSE IF IsBinary(e) \/ Oversized(e)
       THEN [length |-> 1, shows |-> {}, incomplete |-> TRUE]
  ELSE [UnifiedDiff(e) EXCEPT !.incomplete = @ \/ e.secret]

\* _mode_change_diff: nothing when one side is missing.
ModeLine(e) == e.mode /\ Missing \notin Sides(e)

\* _neutralize_source_instructions: a comment is replaced; code around or
\* instead of it is omitted.
Incomplete(e) ==
  Body(e).incomplete \/ (e.instruction \in {"inline", "bare"} /\ ~NonBlob(e)
                           /\ ~IsBinary(e) /\ ~Oversized(e))

Rest(length) == IF length < remaining THEN remaining - length ELSE 0

ReadEntry(e) ==
  LET length == Body(e).length + (IF ModeLine(e) THEN 1 ELSE 0)
      cut    == length > remaining
      shown  == IF cut THEN {}
                ELSE Body(e).shows \cup (IF ModeLine(e) THEN {"mode"} ELSE {})
      taken  == IF cut THEN remaining + 1 ELSE length
      flag   == Incomplete(e) \/ cut \/ Undecodable(e)
  IN  /\ pc = "files" /\ left > 0
      /\ left' = left - 1
      /\ files' = Append(files, [length |-> taken, hidden |-> Facets(e) \ shown,
                                 truncated |-> flag])
      /\ remaining' = Rest(taken)
      /\ truncated' = (truncated \/ flag)
      /\ python' = python + (IF e.python /\ e.new = Text /\ ~IsBinary(e) THEN 1 ELSE 0)
      /\ UNCHANGED <<pc, listed, asked, requests, tree, todo, contexts, ctxTruncated>>

FilesRead ==
  /\ pc = "files" /\ left = 0
  /\ pc' = "imports"
  /\ UNCHANGED <<diffVars, contextVars>>

-----------------------------------------------------------------------------
(* Python context *)

\* Two requests for one module: the whole of it if either wants the whole.
Merged(previous, names) ==
  IF previous # Whole /\ names # Whole THEN previous \cup names ELSE Whole

\* One import of a changed file that parses.
Import(t, names) ==
  /\ pc = "imports" /\ python > 0
  /\ Cardinality(asked) < MaxRequests
  /\ asked' = asked \cup {<<t, names>>}
  /\ requests' = [u \in DOMAIN requests \cup {t} |->
                    IF u # t THEN requests[u]
                    ELSE IF t \in DOMAIN requests THEN Merged(requests[t], names)
                    ELSE names]
  /\ UNCHANGED <<pc, diffVars, python, tree, todo, contexts, ctxTruncated>>

\* The end of its imports; a file that does not parse is passed over, whatever it
\* imports.
FileDone ==
  /\ pc = "imports" /\ python > 0
  /\ python' = python - 1
  /\ UNCHANGED <<pc, diffVars, asked, requests, tree, todo, contexts, ctxTruncated>>

\* Without requests there is no context; if the tree cannot be listed, none
\* can be had.  The review goes on either way.
ListTree ==
  /\ pc = "imports" /\ python = 0
  /\ \/ /\ DOMAIN requests = {}
        /\ pc' = "done"
        /\ UNCHANGED <<todo, ctxTruncated, remaining>>
     \/ /\ DOMAIN requests # {}
        /\ pc' = "done" /\ ctxTruncated' = TRUE
        /\ UNCHANGED <<todo, remaining>>
     \/ /\ DOMAIN requests # {}
        /\ todo' = DOMAIN requests \cap tree
        /\ ctxTruncated' = (Cardinality(todo') > MaxContextFiles)
        /\ remaining' = MaxContext
        /\ pc' = "context"
  /\ UNCHANGED <<listed, left, files, truncated, python, asked, requests, tree, contexts>>

\* The next of them, in the order of their paths.
Place(t) == CHOOSE i \in DOMAIN Targets : Targets[i] = t
Foremost(t) == t \in todo /\ \A u \in todo : Place(t) <= Place(u)

ContextDone ==
  /\ pc = "context"
  /\ \/ todo = {} /\ UNCHANGED ctxTruncated
     \/ /\ todo # {}
        /\ Len(contexts) >= MaxContextFiles \/ remaining = 0
        /\ ctxTruncated' = TRUE
  /\ pc' = "done"
  /\ UNCHANGED <<diffVars, python, asked, requests, tree, todo, contexts>>

More == pc = "context" /\ Len(contexts) < MaxContextFiles /\ remaining > 0

\* Too large, no blob, binary, undecodable, or nothing to extract.
Unusable(target) ==
  /\ More /\ Foremost(target)
  /\ ctxTruncated' = TRUE
  /\ todo' = todo \ {target}
  /\ UNCHANGED <<pc, diffVars, python, asked, requests, tree, contexts>>

\* Some requested symbol is not defined there.
Short(symbols, defined) == ~(symbols \subseteq defined)

\* length is that of the extracted source, clean that no line or secret of it
\* was left out.
Fragment(target, defined, length, clean) ==
  LET symbols == requests[target]
      cut     == length > remaining \/ Short(symbols, defined) \/ ~clean
      taken   == Min({length, remaining}) + (IF cut THEN 1 ELSE 0)
  IN  /\ More /\ Foremost(target)
      /\ symbols = Whole \/ symbols \cap defined # {}
      /\ contexts' = Append(contexts,
           [target |-> target, symbols |-> symbols, length |-> taken,
            whole |-> length <= remaining /\ clean /\ symbols \subseteq defined,
            truncated |-> cut])
      /\ ctxTruncated' = (ctxTruncated \/ cut)
      /\ remaining' = Rest(taken)
      /\ todo' = todo \ {target}
      /\ UNCHANGED <<pc, listed, left, files, truncated, python, asked, requests, tree>>

Next ==
  \/ GitFails \/ ListEntries \/ FilesRead \/ FileDone \/ ListTree
  \/ ContextDone
  \/ \E e \in Entries : ReadEntry(e)
  \/ \E t \in ToSet(Targets), names \in SUBSET Names : Import(t, names)
  \/ \E t \in todo :
       \/ Unusable(t)
       \/ \E defined \in SUBSET Names, length \in 1 .. 2, clean \in BOOLEAN :
            Fragment(t, defined, length, clean)

Spec == Init /\ [][Next]_vars

-----------------------------------------------------------------------------
(* Properties *)

TypeOK ==
  /\ pc \in {"entries", "files", "imports", "context", "done", "failed"}
  /\ listed \in 0 .. MaxEntries /\ left \in 0 .. MaxFiles
  /\ remaining \in 0 .. MaxDiff \cup 0 .. MaxContext
  /\ Len(files) <= MaxFiles
  /\ truncated \in BOOLEAN /\ ctxTruncated \in BOOLEAN
  /\ \A t \in DOMAIN requests : requests[t] \subseteq Names
  /\ Len(contexts) <= MaxContextFiles

\* Nothing a commit changes is hidden from a review that counts as complete: each
\* of its entries has been read, and each aspect of those read is shown
\* (docs/safety.md:28: "Omitted changed bytes ... all force INCOMPLETE").
NothingHidden ==
  ~truncated => /\ \A i \in DOMAIN files : files[i].hidden = {}
                /\ pc = "done" => Len(files) = listed

Lengths(s) == [i \in DOMAIN s |-> s[i].length]

\* Diffs and context keep within their budgets but for one marker apiece.
WithinBudgets ==
  /\ Total(Lengths(files)) <= MaxDiff + Len(files)
  /\ Total(Lengths(contexts)) <= MaxContext + Len(contexts)

Covers(fragment, t, names) ==
  /\ fragment.target = t
  /\ fragment.whole
  /\ fragment.symbols = Whole \/ (names # Whole /\ names \subseteq fragment.symbols)

\* What a changed file that parses imports from a module of the repository is in the
\* context of a review that counts as complete: "unresolved imported symbols,
\* and bounded context/dependency overflow all force INCOMPLETE"
\* (docs/safety.md:28).
ImportsCovered ==
  pc = "done" /\ ~ctxTruncated =>
    \A a \in asked :
      a[1] \in tree =>
        \E i \in DOMAIN contexts : Covers(contexts[i], a[1], a[2])
=============================================================================

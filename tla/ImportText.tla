------------------------------ MODULE ImportText ------------------------------
(***************************************************************************)
(* How the importer reads an export (importer.rs from parse_export on):    *)
(* which format it takes it for, which messages it finds, and which chunks *)
(* of them the model gets to see.  Texts are reduced to what the functions *)
(* look at; a message is its number, its size or the lines it is made of.  *)
(***************************************************************************)
EXTENDS Naturals, SequencesExt, FiniteSetsExt

CONSTANTS
  ChunkTarget, \* CHUNK_TARGET_CHARS
  MaxChunks    \* MAX_ANALYSIS_CHUNKS

-------------------------------------------------------------------------------
(* Formats *)

\* detect_text_format
Look(export) ==
  IF "whatsapp" \in export.mentions \/ export.dates = "slashes" THEN "whatsapp"
  ELSE IF "signal" \in export.mentions \/ export.dates = "iso" THEN "signal"
  ELSE "generic"

\* Mutant of ReadAs: what begins like JSON has to be JSON.
ReadAsJson(export, requested) ==
  LET text == IF requested = "auto" THEN Look(export) ELSE requested IN
  IF ~export.json THEN text
  ELSE IF export.chatgpt THEN "chatgpt"
  ELSE IF export.generic THEN "generic" ELSE "error"

\* parse_export: the format that an export is read as, or "error".  An export begins like
\* JSON or not, is valid JSON or not, and holds messages in the ChatGPT structure, in a
\* generic one, or in none.
ReadAs(export, requested) ==
  LET text == IF requested = "auto" THEN Look(export) ELSE requested IN
  IF requested = "chatgpt" /\ ~export.json THEN "error"
  ELSE IF ~export.json \/ requested \in {"whatsapp", "signal"} THEN text
  ELSE IF ~export.valid THEN IF requested = "auto" THEN text ELSE "error"
  ELSE IF export.chatgpt /\ requested # "generic" THEN "chatgpt"
  ELSE IF export.generic THEN "generic" ELSE "error"

-------------------------------------------------------------------------------
(* Messages *)

\* parse_text_export: a line with a speaker begins a message, other lines go on with the
\* last one; messages that stay empty or have a blank speaker are dropped.  A line is
\* [speaker, body], with the speaker "" for none and " " for a blank one; a message
\* collects the numbers of the lines it has text from.
TextMessages(lines) ==
  LET Body(i) == IF lines[i].body = "" THEN {} ELSE {i}
      Add(found, i) ==
        IF lines[i].speaker # "" THEN Append(found, [named |-> lines[i].speaker # " ", texts |-> Body(i)])
        ELSE IF found = <<>> THEN found
        ELSE [found EXCEPT ![Len(found)].texts = @ \union Body(i)]
      kept == SelectSeq(FoldLeft(Add, <<>>, [i \in DOMAIN lines |-> i]), LAMBDA m : m.named /\ m.texts # {})
  IN  [k \in DOMAIN kept |-> kept[k].texts]

\* chatgpt_active_branch: from the current node up along the parents; a cycle or a node
\* that is not there makes it no branch.
ActiveBranch(parent, current) ==
  LET Up(b, i) ==
        IF b.at = "root" THEN b
        ELSE IF b.at \notin DOMAIN parent \/ b.at \in ToSet(b.nodes) THEN [b EXCEPT !.at = "lost"]
        ELSE [at |-> parent[b.at], nodes |-> <<b.at>> \o b.nodes]
  IN  FoldLeft(Up, [at |-> current, nodes |-> <<>>], [i \in 1..Cardinality(DOMAIN parent) + 1 |-> i])

\* parse_chatgpt_json for one conversation: the active branch, or else every node, in the
\* order of their times.
ChatgptMessages(parent, current, time) ==
  LET branch == ActiveBranch(parent, current)
      nodes == IF branch.at = "root" THEN branch.nodes ELSE SetToSeq(DOMAIN parent)
  IN  SortSeq(nodes, LAMBDA m, n : time[m] < time[n])

-------------------------------------------------------------------------------
(* Chunks *)

\* Mutant of Chunked: what is left over at the end is forgotten.
ChunkedNoRest(sizes) ==
  LET Add(c, i) ==
        IF c.text # 0 /\ c.text + sizes[i] > ChunkTarget
        THEN [done |-> Append(c.done, c.at), at |-> <<i>>, text |-> sizes[i] + 1]
        ELSE [c EXCEPT !.at = Append(@, i), !.text = @ + sizes[i] + 1]
  IN  FoldLeft(Add, [done |-> <<>>, at |-> <<>>, text |-> 0], [i \in DOMAIN sizes |-> i]).done

\* build_chunks: messages, given by the sizes of their texts, are packed in their order; a
\* line break follows each.
Chunked(sizes) ==
  LET Add(c, i) ==
        IF c.text # 0 /\ c.text + sizes[i] > ChunkTarget
        THEN [done |-> Append(c.done, c.at), at |-> <<i>>, text |-> sizes[i] + 1]
        ELSE [c EXCEPT !.at = Append(@, i), !.text = @ + sizes[i] + 1]
      all == FoldLeft(Add, [done |-> <<>>, at |-> <<>>, text |-> 0], [i \in DOMAIN sizes |-> i])
  IN  IF all.at = <<>> THEN all.done ELSE Append(all.done, all.at)

\* select_chunks: the first four, the last eight and evenly spread ones in between.
Selected(total) ==
  IF total <= MaxChunks THEN 0..total - 1
  ELSE LET ends == 0..3 \union total - 8..total - 1
           slots == MaxChunks - Cardinality(ends)
       IN  ends \union {(slot * (total - 1)) \div (slots + 1) : slot \in 1..slots}

-------------------------------------------------------------------------------
(* Properties *)

\* "Auto-detection is recommended": it reads what the other ways of reading JSON read, and
\* every text, also one that begins with a bracket.
AutoReads(export) ==
  /\ \A r \in {"chatgpt", "generic"} : export.valid /\ ReadAs(export, r) # "error" => ReadAs(export, "auto") # "error"
  /\ ~export.valid => ReadAs(export, "auto") = Look(export)

\* Every message is in one chunk, in the order of the export, and a chunk of more than one
\* message is at most the line break too long.
ChunksComplete(sizes) ==
  LET chunks == Chunked(sizes) IN
  /\ FlattenSeq(chunks) = [i \in DOMAIN sizes |-> i]
  /\ \A k \in DOMAIN chunks :
       Len(chunks[k]) > 1 => MapThenSumSet(LAMBDA i : sizes[i] + 1, ToSet(chunks[k])) <= ChunkTarget + 1

\* "Chunks are sampled across the timeline with early and recent context retained": the
\* budget is kept and no gap between two samples is longer than the spread.
SelectionSpans(total) ==
  LET some == Selected(total) IN
  /\ Cardinality(some) <= MaxChunks /\ some \subseteq 0..total - 1
  /\ 0..Min({4, total}) - 1 \subseteq some /\ {i \in 0..total - 1 : i + 8 >= total} \subseteq some
  /\ \A i \in 0..total - 1 : \E j \in some : j >= i /\ (j - i) * (MaxChunks - 11) <= total - 1

\* Only messages on the way from the root to the current node are read, each once, unless
\* the export's tree is broken; then none is lost.
BranchRead(parent, current, time) ==
  LET read == ChatgptMessages(parent, current, time)
      branch == ActiveBranch(parent, current)
  IN  /\ IsInjective(read)
      /\ \A i, j \in DOMAIN read : i < j => time[read[i]] <= time[read[j]]
      /\ IF branch.at # "root" THEN ToSet(read) = DOMAIN parent
         ELSE /\ current \in ToSet(read)
              /\ \A n \in ToSet(read) : parent[n] \in ToSet(read) \union {"root"}

\* A line with text is in one message, unless nobody, or somebody without a name, had
\* spoken last.
LinesRead(lines) ==
  LET messages == TextMessages(lines)
      texts == {i \in DOMAIN lines : lines[i].body # "" /\ \E j \in 1..i :
                  lines[j].speaker \notin {"", " "} /\ \A k \in j+1..i : lines[k].speaker = ""}
  IN  /\ UNION ToSet(messages) = texts
      /\ \A m, n \in DOMAIN messages : m < n => \A i \in messages[m], j \in messages[n] : i < j
===============================================================================

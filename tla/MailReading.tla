----------------------------- MODULE MailReading -----------------------------
(***************************************************************************)
(* The mail tools of the agent (jossie-integration-mail) over their two    *)
(* providers (jossie-integration-email/src/email/{provider,integration}.rs,*)
(* jossie-integration-google/src/google/mail.rs): how a search is asked,   *)
(* paged and answered, how what was found is opened again, and how the     *)
(* parts of a message are read.  A text is the set of its words; a folder  *)
(* name is a record of the name and whether blanks surround it.            *)
(***************************************************************************)
EXTENDS Integers, SequencesExt, FiniteSetsExt

CONSTANT MaxPage  \* the largest page of a search

-------------------------------------------------------------------------------
(* Searching.  A request is [terms, any, legacy, from]: a sequence of words, whether any of *)
(* them will do, the legacy query and a sender, "" for none.                                *)

\* build_gmail_search_query: the terms in parentheses; everything is required.
GmailFinds(request, mail) ==
  LET terms == SelectSeq(request.terms, LAMBDA t : t # "") IN
  /\ terms = <<>> \/ IF request.any THEN \E i \in DOMAIN terms : terms[i] \in mail.words
                     ELSE \A i \in DOMAIN terms : terms[i] \in mail.words
  /\ request.legacy # "" => request.legacy \in mail.words
  /\ request.from # "" => request.from = mail.from

\* Mutant of ImapFinds: the last term is left out of the alternatives.
ImapFindsFew(request, mail) ==
  LET terms == SelectSeq(request.terms, LAMBDA t : t # "") \o IF request.legacy = "" THEN <<>> ELSE <<request.legacy>>
      Text(i) == terms[i] \in mail.words
  IN  /\ IF request.any /\ Len(terms) > 1
         THEN FoldRight(LAMBDA i, rest : Text(i) \/ rest, [i \in 1..Len(terms) - 1 |-> i], FALSE)
         ELSE \A i \in DOMAIN terms : Text(i)
      /\ request.from # "" => request.from = mail.from

\* build_imap_search_query: OR takes two keys, the last ones first; the legacy query is one
\* of the terms.
ImapFinds(request, mail) ==
  LET terms == SelectSeq(request.terms, LAMBDA t : t # "") \o IF request.legacy = "" THEN <<>> ELSE <<request.legacy>>
      Text(i) == terms[i] \in mail.words
  IN  /\ IF request.any /\ Len(terms) > 1
         THEN FoldRight(LAMBDA i, rest : Text(i) \/ rest, [i \in 1..Len(terms) - 1 |-> i], Text(Len(terms)))
         ELSE \A i \in DOMAIN terms : Text(i)
      /\ request.from # "" => request.from = mail.from

\* do_email_search: the newest uids below the token, and the token of the next page.
NoToken == 0
Page(hits, wanted, token) ==
  LET below == IF token = NoToken THEN hits ELSE {u \in hits : u < token}
      size == Min({MaxPage, Max({1, wanted})})
      uids == {u \in below : Cardinality({v \in below : v > u}) < size}
  IN  [uids |-> uids, next |-> IF Cardinality(below) > size THEN Min(uids) ELSE NoToken]

\* Following the tokens to the end.
Pages(hits, wanted) ==
  LET Next(pages, i) ==
        IF pages # <<>> /\ Last(pages).next = NoToken THEN pages
        ELSE Append(pages, Page(hits, wanted, IF pages = <<>> THEN NoToken ELSE Last(pages).next))
  IN  FoldLeft(Next, <<>>, [i \in 1..Cardinality(hits) + 1 |-> i])

-------------------------------------------------------------------------------
(* Opening what was found *)

\* split_account_id: up to the first colon; a text is a sequence here.
Unified(provider, account) == <<provider, ":">> \o account
SplitId(id) ==
  LET at == {i \in DOMAIN id : id[i] = ":"} IN
  IF at = {} THEN <<>>
  ELSE LET account == SubSeq(id, Min(at) + 1, Len(id)) IN
       IF account = <<>> THEN <<>> ELSE <<SubSeq(id, 1, Min(at) - 1), account>>

\* normalize_optional_mailbox
NoMailbox == [name |-> "", blanks |-> FALSE]
Normalized(mailbox) == [mailbox EXCEPT !.blanks = FALSE]

\* The folder IMAP opens: INBOX unless one is named.
Folder(mailbox) == IF mailbox.name = "" THEN "INBOX" ELSE Normalized(mailbox).name

\* Mutant of Reference: the mailbox is taken from the request as it is.
ReferenceRaw(provider, account, mailbox, uid) ==
  [provider |-> provider, account |-> Unified(provider, account), uid |-> uid, mailbox |-> NoMailbox]

\* mail_search: the reference a hit of a search comes with.
Reference(provider, account, mailbox, uid) ==
  [provider |-> provider, account |-> Unified(provider, account), uid |-> uid,
   mailbox |-> IF provider = "imap" /\ mailbox.name = "" THEN [NoMailbox EXCEPT !.name = "INBOX"]
               ELSE Normalized(mailbox)]

\* read_message_evidence: where a reference is looked up, or an error.
Opened(providers, ref) ==
  LET parts == SplitId(ref.account) IN
  IF parts = <<>> \/ (parts # <<>> /\ Head(parts[1]) \notin providers) THEN "error"
  ELSE IF ref.provider # Head(parts[1]) THEN "error"
  ELSE [provider |-> ref.provider, account |-> parts[2], uid |-> ref.uid,
        folder |-> IF ref.provider = "imap" THEN Folder(ref.mailbox) ELSE "any"]

-------------------------------------------------------------------------------
(* The parts of a message.  A part is [mime, attached, named, parts]. *)

\* collect_message_attachments: an attachment is not looked into.
RECURSIVE Attachments(_, _)
Attachments(part, path) ==
  IF part.attached \/ (part.named /\ part.parts = <<>>) THEN {<<path, part>>}
  ELSE UNION {Attachments(part.parts[i], Append(path, i)) : i \in DOMAIN part.parts}

\* find_message_attachment
Found(root, path) ==
  FoldLeft(LAMBDA part, i : part.parts[i], root, path)

\* Mutant of Texts: parts with a name are left out, too.
RECURSIVE TextsUnnamed(_, _, _)
TextsUnnamed(part, path, mime) ==
  IF part.attached \/ part.named THEN {}
  ELSE IF part.parts = <<>> THEN IF part.mime = mime THEN {path} ELSE {}
  ELSE UNION {TextsUnnamed(part.parts[i], Append(path, i), mime) : i \in DOMAIN part.parts}

\* collect_message_parts
RECURSIVE Texts(_, _, _)
Texts(part, path, mime) ==
  IF part.attached THEN {}
  ELSE IF part.parts = <<>> THEN IF part.mime = mime THEN {path} ELSE {}
  ELSE UNION {Texts(part.parts[i], Append(path, i), mime) : i \in DOMAIN part.parts}

\* extract_message_body: the plain texts, or else the HTML ones, or else the message itself.
Body(root) ==
  LET plain == Texts(root, <<>>, "plain")
      html == Texts(root, <<>>, "html")
  IN  IF plain # {} THEN plain ELSE IF html # {} THEN html ELSE {<<>>}

RECURSIVE Leaves(_, _)
Leaves(part, path) ==
  IF part.parts = <<>> THEN {path}
  ELSE UNION {Leaves(part.parts[i], Append(path, i)) : i \in DOMAIN part.parts}

-------------------------------------------------------------------------------
(* Properties *)

\* "Search email consistently across Gmail and IMAP": a request the agent can make (the legacy
\* query is not offered to it) finds the same mail with both providers.
SearchesAgree(request, mail) ==
  request.legacy = "" => (ImapFinds(request, mail) <=> GmailFinds(request, mail))

\* "paginate with next_page_token when completeness matters": the pages are all there is,
\* each hit once, the newest first, also when mail arrives meanwhile.
PagesComplete(hits, later, wanted) ==
  LET pages == Pages(hits, wanted)
      first == Page(hits, wanted, NoToken)
  IN  /\ UNION {pages[i].uids : i \in DOMAIN pages} = hits
      /\ \A i, j \in DOMAIN pages : i < j => \A u \in pages[i].uids, v \in pages[j].uids : u > v
      /\ Len(pages) > 1 => Page(hits \union later, wanted, first.next) = pages[2]

\* A reference from a search opens that message, in the folder and the account that were
\* searched, whatever the names are; one put together from two references opens nothing.
FoundIsOpened(provider, account, mailbox, uid) ==
  LET ref == Reference(provider, account, mailbox, uid)
      other == IF provider = "imap" THEN "gmail" ELSE "imap"
  IN  /\ Opened({"imap", "gmail"}, ref) =
           [provider |-> provider, account |-> account, uid |-> uid,
            folder |-> IF provider = "imap" THEN Folder(mailbox) ELSE "any"]
      /\ Opened({"imap", "gmail"}, [ref EXCEPT !.provider = other]) = "error"
      /\ Opened({other}, ref) = "error"

\* Every attachment that is listed can be opened under its id and is the one that was
\* listed; plain text is shown or is listed as an attachment; none is within another one.
PartsReachable(root) ==
  LET listed == Attachments(root, <<>>) IN
  /\ \A a \in listed : Found(root, a[1]) = a[2]
  /\ \A a, b \in listed : a # b => ~IsPrefix(a[1], b[1])
  /\ \A leaf \in Leaves(root, <<>>) :
       Found(root, leaf).mime = "plain" =>
         leaf \in Body(root) \/ \E a \in listed : IsPrefix(a[1], leaf)
===============================================================================

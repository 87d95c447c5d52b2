--------------------------- MODULE MCItemPipeline ---------------------------
(* Instances of ItemPipeline for TLC.                                      *)
EXTENDS ItemPipeline

CONSTANTS a, b, v, held, other, mail, journal, files, p, q, x, y

Inbox == << "inbox" >>
Sub == << "inbox", "sub" >>

\* The date a message was sent is one of the fields the verification compares.
SentAt(id, content) == IF content = other THEN 3 ELSE IF id = a THEN 1 ELSE 2

Thing(id, content, archive, folder, parts) ==
  [id |-> id, content |-> content, archive |-> archive, folder |-> folder,
   sent |-> SentAt(id, content), parts |-> parts]

Good(id, data) == [id |-> id, data |-> data, intact |-> TRUE]
Bad(id, data) == [id |-> id, data |-> data, intact |-> FALSE]

Documents == [content : {v, held, other}, archive : {mail, journal, files}]

\* "held" is v on a field only the stored document has, "other" differs from v
\* in what the verification compares too; both keep the archive.
StoredForm == [document \in Documents |-> document]
Signature ==
  [document \in Documents |->
    IF document.content = held THEN [document EXCEPT !.content = v] ELSE document]

\* One item of an id in each archive; the shared part p is corrupt, then has two
\* payloads, in items of different archives.
Plain ==
  << Thing(a, v, mail, Inbox, << Good(p, x) >>),
     Thing(b, v, journal, << >>, << Good(p, x), Good(q, x) >>) >>

Held ==
  << Thing(a, held, mail, Sub, << Bad(q, x), Good(p, y) >>),
     Thing(b, held, journal, << >>, << Good(p, x) >>) >>

Copies ==
  << Thing(a, v, mail, Inbox, << >>),
     Thing(a, other, journal, << >>, << Bad(p, y) >>),
     Thing(b, other, files, << >>, << >>) >>

Duplicated ==
  << Thing(a, v, mail, Inbox, << Good(p, y), Good(p, x) >>),
     Thing(a, other, mail, Sub, << Good(p, y) >>),
     Thing(a, v, journal, << >>, << >>) >>

FourSources == { Plain, Held, Copies, Duplicated }
PlainOrHeld == { Plain, Held }
OnlyCopies == { Copies, Duplicated }

Everywhere == { << >>, Inbox }

Selecting(dry, archives, folders, start, end) ==
  [dry |-> dry, archives |-> archives, folders |-> folders, start |-> start, end |-> end]

\* The dates select b of Plain and Held, and nothing else: 2 is the last day and the
\* first one, so that either limit leaves something out.
Configurations ==
  { Selecting(FALSE, {mail, journal, files}, Everywhere, None, None),
    Selecting(FALSE, {mail}, {Inbox}, None, None),
    Selecting(FALSE, {mail, journal}, Everywhere, 2, 2),
    Selecting(TRUE, {mail, journal}, Everywhere, None, None) }

\* Both archives of the copies, or the journal alone.
JournalConfigurations ==
  { Selecting(FALSE, {mail, journal}, Everywhere, None, None),
    Selecting(FALSE, {journal}, Everywhere, None, None) }

=============================================================================

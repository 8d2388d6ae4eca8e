---------------------------- MODULE MappingRows ----------------------------
(***************************************************************************)
(* The mapping table of the V3 backend and everything that is computed     *)
(* from it: the list operations of database/Table.py, the sheet of rows    *)
(* the mapping page edits (mapping.py), the three ways an import is        *)
(* reconciled with the table, and what the resolver and the automation     *)
(* read in it (mapping_resolver.py, mapping_automation.py).  There is no   *)
(* state here: MappingTable runs the threads that use these operators.     *)
(*                                                                         *)
(* A title, a season and a URL are numbers in the order the code sorts     *)
(* them; the two seasons that are words come after the numeric ones, as in *)
(* season_sort_key.  Key is normalize_title, Norm normalize_url and Part   *)
(* url_part_number (0 when there is none).  The rows of one entry and      *)
(* season stand together as one group with its list of URLs.  Language     *)
(* preferences, notes, aliases and source titles are left out.             *)
(***************************************************************************)
EXTENDS Naturals, Sequences, FiniteSets, SequencesExt

CONSTANTS
  Titles,      \* series titles
  Key,         \* the normalised form of each title
  Urls,        \* source URLs, "" left out
  Valid,       \* those with an http scheme and a host
  Norm,        \* the normalised form of each URL
  Part         \* the part number in the slug of each URL, 0 for none

ASSUME RowsAssumption ==
  /\ Titles \subseteq Nat /\ Urls \subseteq Nat /\ Valid \subseteq Urls
  /\ Key \in [Titles -> Nat]
  /\ Norm \in [Urls -> Nat]
  /\ Part \in [Urls -> Nat]

Absolute == 90                 \* the season "absolute"
NoSeason == 91                 \* the season "" of a series without seasons
Numeric(season) == season < Absolute

(***************************************************************************)
(* The table: entries sorted by title, each with its seasons and their     *)
(* URLs in download order.                                                 *)
(***************************************************************************)
Entry(title, absolute, seasons) ==
  [title |-> title, absolute |-> absolute, seasons |-> seasons]

IsTable(data) ==
  /\ data \in Seq(Range(data))
  /\ \A e \in Range(data) :
       /\ e = Entry(e.title, e.absolute, e.seasons)
       /\ e.title \in Titles /\ e.absolute \in BOOLEAN
       /\ DOMAIN e.seasons \subseteq 0 .. Absolute
       /\ e.seasons \in [DOMAIN e.seasons -> Seq(Urls)]

\* The facts a user cares about: this URL serves this season of this series.
Facts(data) ==
  LET Of(e) == UNION {{<<Key[e.title], s, Norm[url]>> : url \in Range(e.seasons[s])} :
                        s \in DOMAIN e.seasons}
  IN  UNION {Of(e) : e \in Range(data)}

(***************************************************************************)
(* Lists, with orders given as sets of pairs.                              *)
(***************************************************************************)
\* The members of a finite set in a strict order.
InOrder(set, order) ==
  [n \in 1..Cardinality(set) |->
     CHOOSE x \in set : Cardinality({y \in set : <<y, x>> \in order}) = n - 1]
Ascending(set) == InOrder(set, {p \in set \X set : p[1] < p[2]})

\* What stands at some of the positions of a list.
Chosen(list, positions) ==
  LET from[n \in 0..Len(list)] ==
        IF n = 0 THEN <<>>
        ELSE IF n \in positions THEN Append(from[n - 1], list[n]) ELSE from[n - 1]
  IN  from[Len(list)]

\* A list in the stable order that puts the first of each pair of positions
\* before the second.
Arranged(list, before) ==
  LET pairs == (DOMAIN list) \X (DOMAIN list)
      order == InOrder(DOMAIN list,
                 {p \in pairs : \/ p \in before
                                \/ <<p[2], p[1]>> \notin before /\ p[1] < p[2]})
  IN  [n \in DOMAIN order |-> list[order[n]]]

\* A list without its repetitions.
Distinct(list) ==
  Chosen(list, {i \in DOMAIN list : \A j \in 1..(i - 1) : list[j] # list[i]})

SortedByTitle(data) ==
  Arranged(data, {p \in (DOMAIN data) \X (DOMAIN data) :
                    data[p[1]].title < data[p[2]].title})

Positions(data, title) == {i \in DOMAIN data : data[i].title = title}
Lowest(set) == CHOOSE i \in set : \A j \in set : i <= j
At(data, title) == Lowest(Positions(data, title))
Has(data, title) == Positions(data, title) # {}
HasSeason(data, title, season) ==
  /\ Has(data, title)
  /\ season \in DOMAIN data[At(data, title)].seasons

With(function, key, value) ==
  [k \in DOMAIN function \cup {key} |-> IF k = key THEN value ELSE function[k]]
Without(function, key) == [k \in DOMAIN function \ {key} |-> function[k]]
SetSeasons(data, i, seasons) == [data EXCEPT ![i].seasons = seasons]

(* Table.py: each answers the table as it is when the method returns, and  *)
(* the same table when the method refuses or raises.                       *)
AppendSerie(data, title, absolute) ==
  IF Has(data, title) THEN data
  ELSE SortedByTitle(Append(data, Entry(title, absolute, <<>>)))

AppendSeason(data, title, season) ==
  LET known == AppendSerie(data, title, FALSE)
      i     == At(known, title)
  IN  IF known[i].absolute # (season = Absolute) \/ season \in DOMAIN known[i].seasons
        THEN known
        ELSE SetSeasons(known, i, With(known[i].seasons, season, <<>>))

AppendUrls(data, title, season, urls) ==
  LET known == IF HasSeason(data, title, season) THEN data
               ELSE AppendSeason(data, title, season)
      i     == At(known, title)
      old   == known[i].seasons[season]
      new   == Chosen(urls, {n \in DOMAIN urls : ~Contains(old, urls[n])})
  IN  IF ~HasSeason(known, title, season) THEN known
      ELSE SetSeasons(known, i, With(known[i].seasons, season, old \o new))

RemoveSerie(data, title) ==
  IF Has(data, title) THEN RemoveAt(data, At(data, title)) ELSE data

RemoveSeason(data, title, season) ==
  IF HasSeason(data, title, season)
    THEN SetSeasons(data, At(data, title),
                    Without(data[At(data, title)].seasons, season))
    ELSE data

PlaceOf(urls, url) == Lowest({n \in DOMAIN urls : urls[n] = url})

RemoveUrl(data, title, season, url) ==
  IF ~HasSeason(data, title, season) THEN data
  ELSE LET i    == At(data, title)
           urls == data[i].seasons[season]
       IN  IF ~Contains(urls, url) THEN data
           ELSE SetSeasons(data, i, With(data[i].seasons, season,
                                         RemoveAt(urls, PlaceOf(urls, url))))

RenameSerie(data, title, new) ==
  IF Has(data, new) \/ ~Has(data, title) THEN data
  ELSE SortedByTitle([data EXCEPT ![At(data, title)].title = new])

RenameSeason(data, title, season, new) ==
  IF HasSeason(data, title, new) \/ ~HasSeason(data, title, season) THEN data
  ELSE LET i == At(data, title)
       IN  SetSeasons(data, i, With(Without(data[i].seasons, season), new,
                                    data[i].seasons[season]))

RenameUrl(data, title, season, url, new) ==
  IF ~HasSeason(data, title, season) THEN data
  ELSE LET i    == At(data, title)
           urls == data[i].seasons[season]
       IN  IF Contains(urls, new) \/ ~Contains(urls, url) THEN data
           ELSE SetSeasons(data, i, With(data[i].seasons, season,
                  [urls EXCEPT ![PlaceOf(urls, url)] = new]))

\* The URLs of a season in natural part order, those without a part last.
SortPartUrls(urls) ==
  LET Class(i) == IF Part[urls[i]] = 0 THEN <<2, i>> ELSE <<0, Part[urls[i]]>>
      Before(i, j) ==
        \/ Class(i)[1] < Class(j)[1]
        \/ Class(i)[1] = Class(j)[1] /\ Class(i)[2] < Class(j)[2]
        \/ Class(i) = Class(j) /\ Norm[urls[i]] < Norm[urls[j]]
  IN  Arranged(urls, {p \in (DOMAIN urls) \X (DOMAIN urls) : Before(p[1], p[2])})

(***************************************************************************)
(* The sheet: the groups of rows the mapping page shows and sends back.    *)
(* preferences keeps, by title, the series marked for review and those     *)
(* that may share a URL between seasons, and the list of review drafts.    *)
(***************************************************************************)
Group(entry, title, season, urls, absolute, review, shared) ==
  [entry |-> entry, title |-> title, season |-> season, urls |-> urls,
   absolute |-> absolute, review |-> review \/ urls = <<>>, shared |-> shared]

Groups == [entry : Nat, title : Titles, season : 0 .. NoSeason, urls : Seq(Urls),
           absolute : BOOLEAN, review : BOOLEAN, shared : BOOLEAN]

\* The ids of the entries of the table are their numbers, from 0; an import has
\* ids of its own, import:<number> or import:<title>.
Known(i) == 2 * (i - 1)
Imported(id) == 2 * id + 1

\* Ids are compared as texts: 10 comes before 9 (exact up to MaxNumber).
MaxNumber == 999
TextRank(n) ==
  IF n < 10 THEN 111 * n
  ELSE IF n < 100 THEN 111 * (n \div 10) + 11 * (n % 10) + 1
  ELSE IF n <= MaxNumber
    THEN 111 * (n \div 100) + 11 * ((n \div 10) % 10) + (n % 10) + 2
  ELSE 111 * n
IdBefore(x, y) ==
  \/ x % 2 < y % 2
  \/ x % 2 = y % 2 /\ TextRank(x \div 2) < TextRank(y \div 2)

GroupsOf(entry, i, preferences) ==
  LET review == entry.title \in preferences.review
      shared == entry.title \in preferences.shared
      Row(s, urls, flag) ==
        Group(Known(i), entry.title, s, urls, entry.absolute, flag, shared)
      order == Ascending(DOMAIN entry.seasons)
  IN  IF order = <<>> THEN <<Row(NoSeason, <<>>, TRUE)>>
      ELSE [n \in DOMAIN order |-> Row(order[n], entry.seasons[order[n]], review)]

FlattenTable(data, preferences) ==
  FlattenSeq([i \in DOMAIN data |-> GroupsOf(data[i], i, preferences)])

Ids(sheet) == {sheet[i].entry : i \in DOMAIN sheet}
ById(sheet) ==
  InOrder(Ids(sheet), {p \in Ids(sheet) \X Ids(sheet) : IdBefore(p[1], p[2])})
OfEntry(sheet, id) == {i \in DOMAIN sheet : sheet[i].entry = id}

\* Rows are taken in season order, so the last season names the entry.
EntryFromRows(sheet, id) ==
  LET rows == OfEntry(sheet, id)
      last == CHOOSE i \in rows : \A j \in rows :
                \/ sheet[j].season < sheet[i].season
                \/ sheet[j].season = sheet[i].season /\ j <= i
      UrlsOf(s) == FlattenSeq([i \in DOMAIN sheet |->
                     IF i \in rows /\ sheet[i].season = s THEN sheet[i].urls ELSE <<>>])
  IN  Entry(sheet[last].title, sheet[last].absolute,
        [s \in {sheet[i].season : i \in rows} \ {NoSeason} |-> Distinct(UrlsOf(s))])

\* A bug: rows are grouped by their title alone.
TableByTitle(sheet) ==
  LET Named == [i \in DOMAIN sheet |-> [sheet[i] EXCEPT !.entry = sheet[i].title]]
      ids   == ById(Named)
  IN  SortedByTitle([n \in DOMAIN ids |-> EntryFromRows(Named, ids[n])])

TableFromRows(sheet) ==
  LET ids == ById(sheet)
  IN  SortedByTitle([n \in DOMAIN ids |-> EntryFromRows(sheet, ids[n])])

\* The last row of a title decides its flags; a title without rows keeps its own.
Flagged(sheet, flags, Flag(_)) ==
  FoldLeft(LAMBDA titles, i : IF Flag(sheet[i]) THEN titles \cup {sheet[i].title}
                              ELSE titles \ {sheet[i].title},
           flags, [i \in DOMAIN sheet |-> i])

MetadataFromRows(sheet, preferences) ==
  [preferences EXCEPT
     !.review = Flagged(sheet, @, LAMBDA row : row.review \/ row.urls = <<>>),
     !.shared = Flagged(sheet, @, LAMBDA row : row.shared)]

\* The issues of level "error": a page or an import with one is refused.
Accepted(sheet) ==
  \A i \in DOMAIN sheet :
    /\ IF sheet[i].absolute THEN sheet[i].season = Absolute ELSE Numeric(sheet[i].season)
    /\ Range(sheet[i].urls) \subseteq Valid

SortPartUrlsInRows(sheet) ==
  [i \in DOMAIN sheet |-> [sheet[i] EXCEPT !.urls = SortPartUrls(@)]]

(***************************************************************************)
(* Imports.  Imported rows have no entry (0) when they come from a CSV and *)
(* the entry of their own file when they come from a table.json.           *)
(***************************************************************************)
Coalesced(incoming) ==
  [i \in DOMAIN incoming |->
     IF incoming[i].entry # 0
       THEN [incoming[i] EXCEPT !.entry = Imported(@)]
       ELSE LET first == Lowest({j \in DOMAIN incoming :
                            Key[incoming[j].title] = Key[incoming[i].title]})
            IN  [incoming[i] EXCEPT !.entry = Imported(Key[incoming[i].title]),
                                    !.title = incoming[first].title]]

Concerns(row, key, season) == Key[row.title] = key /\ row.season = season

Signature(rows) ==
  UNION {{<<row.absolute, IF row.urls = <<>> THEN 0 ELSE Norm[row.urls[n]]>> :
            n \in 1..(IF row.urls = <<>> THEN 1 ELSE Len(row.urls))} : row \in rows}

\* One imported group applied to the sheet built so far.
Reconciled(current, sheet, row, update) ==
  LET key    == Key[row.title]
      same   == {i \in DOMAIN current : Key[current[i].title] = key}
      old    == {current[i] : i \in {j \in same : current[j].season = row.season}}
      home   == IF same = {} THEN row ELSE current[Lowest(same)]
      title  == IF update THEN row.title ELSE home.title
      kept   == IF old = {} THEN sheet
                ELSE Chosen(sheet, {i \in DOMAIN sheet : ~Concerns(sheet[i], key, row.season)})
      named  == [i \in DOMAIN kept |->
                   IF update /\ same # {} /\ Key[kept[i].title] = key
                     THEN [kept[i] EXCEPT !.title = title] ELSE kept[i]]
  IN  IF old # {} /\ (~update \/ Signature(old) = Signature({row}))
        THEN sheet
        ELSE Append(named, [row EXCEPT !.entry = home.entry, !.title = title])

ReconcileImportRows(current, incoming, mode) ==
  LET rows == Coalesced(incoming)
      after[n \in 0..Len(rows)] ==
        IF n = 0 THEN current ELSE Reconciled(current, after[n - 1], rows[n], mode = "update")
  IN  IF mode = "overwrite" THEN rows ELSE after[Len(rows)]

(***************************************************************************)
(* What the resolver and the automation read.                              *)
(***************************************************************************)
MatchingEntries(data, title) ==
  LET exact  == {i \in DOMAIN data : data[i].title = title}
      others == {i \in DOMAIN data \ exact : Key[data[i].title] = Key[title]}
  IN  Chosen(data, exact) \o Chosen(data, others)

\* Position in the table of the entry find_entry answers, 0 when there is none.
FindEntry(data, title) ==
  LET similar == {i \in DOMAIN data : Key[data[i].title] = Key[title]}
  IN  IF Has(data, title) THEN At(data, title)
      ELSE IF similar = {} THEN 0 ELSE Lowest(similar)

\* A season is mapped when an entry before any that is under review serves it.
Mapped(data, preferences, title, season) ==
  LET entries == MatchingEntries(data, title)
      Usable(e) == /\ season \in DOMAIN e.seasons
                   /\ Range(e.seasons[season]) \cap Valid # {}
  IN  \E i \in DOMAIN entries :
        /\ Usable(entries[i])
        /\ \A j \in 1..i : entries[j].title \notin preferences.review

\* The URLs of a season that is mapped: those of the first entry that has any.
UrlsOf(data, title, season) ==
  LET entries == MatchingEntries(data, title)
      Usable(e) == IF season \in DOMAIN e.seasons
                     THEN Chosen(e.seasons[season],
                                 {i \in DOMAIN e.seasons[season] : e.seasons[season][i] \in Valid})
                     ELSE <<>>
      usable == Chosen(entries, {i \in DOMAIN entries : Usable(entries[i]) # <<>>})
  IN  CHOOSE urls \in {Usable(e) : e \in {usable[1]}} : TRUE

MayShare(data, preferences, title, option) ==
  LET i == FindEntry(data, title)
  IN  \/ option
      \/ i # 0 /\ data[i].absolute
      \/ title \in preferences.shared
      \/ i # 0 /\ data[i].title \in preferences.shared

SharedUrlConflict(data, preferences, title, season, url, option) ==
  LET i == FindEntry(data, title)
  IN  /\ i # 0
      /\ ~MayShare(data, preferences, title, option)
      /\ \E s \in DOMAIN data[i].seasons \ {season} :
           \E n \in DOMAIN data[i].seasons[s] :
             Norm[data[i].seasons[s][n]] = Norm[url]

ExistingDuplicate(data, preferences, title, season, option) ==
  LET i == FindEntry(data, title)
  IN  /\ i # 0
      /\ season \in DOMAIN data[i].seasons
      /\ \E n \in DOMAIN data[i].seasons[season] :
           SharedUrlConflict(data, preferences, title, season,
                             data[i].seasons[season][n], option)

\* The entry with the URL added: a new entry when there is none, and the
\* title as Sonarr writes it when there is one.
Amended(data, title, season, url) ==
  LET i       == FindEntry(data, title)
      entry   == IF i = 0 THEN Entry(title, FALSE, <<>>) ELSE [data[i] EXCEPT !.title = title]
      urls    == IF season \in DOMAIN entry.seasons THEN entry.seasons[season] ELSE <<>>
      amended == [entry EXCEPT !.seasons = With(@, season, Append(urls, url))]
  IN  IF i = 0 THEN Append(data, amended) ELSE [data EXCEPT ![i] = amended]

Refused(data, title, season, url) ==
  LET i == FindEntry(data, title)
  IN  /\ i # 0
      /\ \/ data[i].absolute /\ season # Absolute
         \/ season \in DOMAIN data[i].seasons /\ url \in Range(data[i].seasons[season])
=============================================================================

------------------------------ MODULE VersionMap ------------------------------
(***************************************************************************)
(* The table of bridged releases that is built into the tool, and the       *)
(* release it recommends for the version of a Terraform provider.           *)
(***************************************************************************)
EXTENDS Naturals, FiniteSets, FiniteSetsExt

\* What is recorded of a release: the upstream version that it bridges, as a
\* number with its major in the tens; that the version could not be found; or,
\* in a file that was cut off, neither.  A release that is not in the table is
\* Unlisted.
Error == 1
Half == 2
Unlisted == 0
IsVersion(entry) == entry >= 10
Major(v) == v \div 10

\* The releases of a table row that have a version; a release is its rank.
Bridging(row) == {r \in DOMAIN row : IsVersion(row[r])}

\* latestVersion and latestVersionMatchingMajor.
Latest(releases) == Max(releases)
OfMajor(row, releases, major) == {r \in releases : Major(row[r]) = major}

\* What the code asserts of the row before it reads it: every entry that is not
\* an error has a version, and there is one.
Readable(row) == Half \notin {row[r] : r \in DOMAIN row} /\ Bridging(row) # {}

\* RecommendPulumiProvider for a version, or for none (0): the newest release of
\* the same version, else one of the largest older version of the same major
\* (the sort does not keep the order of equals), else the newest of the major,
\* else the newest.
Recommended(row, v) ==
  LET all == Bridging(row)
      exact == {r \in all : row[r] = v}
      older == {r \in OfMajor(row, all, Major(v)) : row[r] <= v}
      largest == Max({row[r] : r \in older})
      major == OfMajor(row, all, Major(v))
  IN IF v = 0 THEN {Latest(all)}
     ELSE IF exact # {} THEN {Max(exact)}
     ELSE IF older # {} THEN {r \in older : row[r] = largest}
     ELSE IF major # {} THEN {Latest(major)}
     ELSE {Latest(all)}
=============================================================================

----------------------------- MODULE MCPackageRules -----------------------------
(* Every package of up to three files out of ten paths, with other artifacts     *)
(* before and after it, and policies that own, share and nest some of them.       *)
EXTENDS PackageRules, TLC, SequencesExt

FewNames == {"a", "A", "ab", ".freshen", ".Freshen", "..", "X.app", "x.app",
             "Contents", "MacOS", "contents", "macos"}
LowerCase == [n \in FewNames |->
  CASE n = "A" -> "a" [] n = ".Freshen" -> ".freshen" [] n = "X.app" -> "x.app"
    [] n = "Contents" -> "contents" [] n = "MacOS" -> "macos" [] OTHER -> n]
SomeBegin == {<<"a", "ab">>}
SomeApps == {"X.app", "x.app"}
SomeUnsafe == {".."}

SomePaths == {<<"a">>, <<"A">>, <<"ab">>, <<"a", "a">>, <<"A", "ab">>, <<".Freshen">>,
              <<"ab", "a">>, <<"a", "ab", "a">>, <<"a", ".freshen">>, <<"..", "a">>}
BundlePaths == {<<"X.app", "Contents", "MacOS", "a">>, <<"X.app", "a">>, <<"x.app", "ab">>,
                <<"X.app">>, <<"a">>}
FilesOf(list) == [k \in DOMAIN list |-> [path |-> list[k], hash |-> TRUE]]
Package(kind, files) == [target |-> "t", kind |-> kind, head |-> TRUE, files |-> files]

Plain == {Package("files", FilesOf(list)) : list \in SeqOf(SomePaths, 3)}
Bundled == {Package("mac_bundle", FilesOf(list)) : list \in SeqOf(BundlePaths, 3)}
Small == {p \in Plain : Len(p.files) = 1}
Broken == {[p EXCEPT !.head = FALSE] : p \in Small}
          \cup {[p EXCEPT !.files[1].hash = FALSE] : p \in Small}
Other == {[Package("files", FilesOf(<<q>>)) EXCEPT !.target = t] :
            q \in {<<"a">>, <<"..", "a">>}, t \in {"t", "other"}}

SomeManifests ==
  {[head |-> h, artifacts |-> <<p>>] : h \in BOOLEAN, p \in Small}
    \cup {[head |-> TRUE, artifacts |-> <<p>>] : p \in Plain \cup Bundled \cup Broken}
    \cup {[head |-> TRUE, artifacts |-> <<p, o>>] : p \in Small, o \in Other}
    \cup {[head |-> TRUE, artifacts |-> <<o, p>>] : p \in Small, o \in Other}

FilePolicies ==
  {[kind |-> "files", fields |-> TRUE, owned |-> o, executable |-> e, expandable |-> x] :
     o \in {<<<<"a">>>>, <<<<"a">>, <<"ab">>>>, <<<<"ab">>, <<"ab">>>>, <<<<"a", "a">>>>},
     e \in {<<"a">>, <<"ab">>, <<"a", "a">>}, x \in {<<>>, <<<<"a">>>>, <<<<"A">>, <<"ab">>>>}}
BundlePolicies ==
  {[kind |-> "mac_bundle", fields |-> f, bundle |-> b, executable |-> <<"X.app", "Contents", "MacOS", "a">>] :
     f \in BOOLEAN, b \in {"X.app", "x.app", "a", ".freshen"}}
SomePolicies == FilePolicies \cup BundlePolicies
=============================================================================

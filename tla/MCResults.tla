------------------------------ MODULE MCResults -----------------------------
(***************************************************************************)
(* Pairs of artifacts that differ in their suites, in their endpoint       *)
(* reports or in their records.                                            *)
(***************************************************************************)
EXTENDS Results

Case(base, arg, noise, xml) == [name |-> [base |-> base, arg |-> arg, noise |-> noise], xml |-> xml]

\* A testsuite, with the properties and the output Gradle writes.
TestSuite(class, cases) == [class |-> class, cases |-> cases, others |-> TRUE]

\* A file as Gradle writes it.
File(suite, task) ==
    [readable |-> TRUE, wrapped |-> FALSE, name |-> "", task |-> task, suites |-> <<suite>>]

\* A case that has an excuse somewhere, and one that has none.
Suite(class, task, base, arg, noise, known, new) ==
    File(TestSuite(class, {Case(base, arg, noise, known), Case("newCase", arg, noise, new)}), task)

\* A class, the task it runs under, and a case of it.
JvmClasses ==
    {<<"GoHttpbinTest", "test", "get", "">>,
     <<"EchTest", "echTest", "cloudflareUsesEch", "JDK">>,
     <<"EchTest", "echTest", "cloudflareUsesEch", "CONSCRYPT_ECH">>,
     <<"HttpsRecordTest", "networkTest", "cloudflarePublishesEch", "">>,
     <<"BasicLoomTest", "loomTest", "testHttpsRequest", "">>}
AndroidClasses ==
    {<<"CertificateTransparencyTest", "connectedAndroidTest",
       "unloggedCertificateIsRejectedWhenCtIsEnforced", "">>,
     <<"EncryptedClientHelloTest", "connectedAndroidTest", "echIsAccepted", "">>}

\* Only Android writes a failed assumption as a failure.
JvmSuites == {Suite(k[1], k[2], k[3], k[4], "(TlsPlatform)", x, y) :
                k \in JvmClasses, x, y \in {"passed", "failed", "skipped"}}
AndroidSuites == {Suite(k[1], k[2], k[3], k[4], "[emulator-5554 - 17]", x, y) :
                    k \in AndroidClasses, x, y \in {"passed", "failed", "assumption"}}

Plain == Suite("GoHttpbinTest", "test", "get", "", "", "passed", "passed")

\* A file that was cut off, and wrappers of which the first testsuite has cases, has
\* none, has no children, or is missing.
Failing == TestSuite("GoHttpbinTest", {Case("get", "", "", "failed")})
Passing == TestSuite("HttpsRecordTest", {Case("get", "", "", "passed"), Case("put", "", "", "failed")})
Empty(others) == [class |-> "EchTest", cases |-> {}, others |-> others]
Wrapper(suites) == [readable |-> TRUE, wrapped |-> TRUE, name |-> "connected", task |-> "networkTest",
                    suites |-> suites]
OddFiles ==
    {[Suite("GoHttpbinTest", "test", "get", "", "", "passed", "failed") EXCEPT !.readable = FALSE],
     Wrapper(<<>>), Wrapper(<<Passing>>), Wrapper(<<Passing, Failing>>), Wrapper(<<Failing, Passing>>),
     Wrapper(<<Empty(TRUE), Failing>>), Wrapper(<<Empty(FALSE), Passing, Passing>>)}

\* jdk is 0 on Android, api is "" on the JVM.
Artifact(version, files, jdk, api) ==
    [version |-> version, platform |-> "p1", jdk |-> jdk, api |-> api, arch |-> "x86_64",
     files |-> files, reports |-> <<>>, policies |-> <<>>, hellos |-> <<>>, ech |-> <<>>]

\* A record that can be read, and one that cannot.
Good(record) == [readable |-> TRUE, record |-> record]
Bad(record) == [readable |-> FALSE, record |-> record]

MCContents ==
    {Artifact("v1", {s}, jdk, "") : s \in JvmSuites, jdk \in {21, 25}}
      \cup {[Artifact("v1", {s}, 0, api) EXCEPT !.arch = arch] :
              s \in AndroidSuites, api \in {"36", "37.1"}, arch \in {"x86_64", "arm64"}}
      \cup {Artifact("v2", {s, Plain}, 21, "") :
              s \in {t \in JvmSuites : t.suites[1].class \in {"BasicLoomTest", "EchTest"}}}
      \cup {[Artifact("v1", files, 21, "") EXCEPT !.reports = <<"down">>] :
              files \in {{f} : f \in OddFiles} \cup {{f, Plain} : f \in OddFiles}}
      \cup {[Artifact("v1", files, 21, "") EXCEPT !.reports = <<x, y>>] :
              files \in {{}, {Plain}}, x \in {"up", "down", "unreadable"},
              y \in {"up", "down", "absent"}}
      \cup {[Artifact("v1", {Plain}, 21, "") EXCEPT
                !.policies = policies, !.platform = p, !.hellos = <<Bad("cut"), Good(n)>>,
                !.ech = <<Good(<<n>>), Bad(<<"cut">>), Good(<<n>>)>>] :
              policies \in {<<Good([c \in checks |-> "yes"])>> : checks \in SUBSET {"pinning", "ct"}}
                 \cup {<<>>, <<Bad([c \in {"pinning"} |-> "yes"])>>,
                       <<Bad([c \in {"pinning"} |-> "yes"]), Good([c \in {"ct"} |-> "no"])>>,
                       <<Good([c \in {"pinning"} |-> "no"]), Good([c \in {"ct"} |-> "no"])>>},
              p \in {"p1", "p2"}, n \in {"first", "second"}}

=============================================================================

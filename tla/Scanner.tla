-------------------------------- MODULE Scanner ------------------------------
(***************************************************************************)
(* The scanner of engulf (crates/engulf/src/scanner.rs): what it makes of  *)
(* the files of a repository, a set of files from Catalogue.  All errors   *)
(* below its surface are swallowed, so a scan never fails.                 *)
(***************************************************************************)
EXTENDS Integers, Sequences, FiniteSetsExt

CONSTANT Sample    \* files looked into for secrets, routes, variables (40, 30, 50)

-----------------------------------------------------------------------------
(* Files.  A source file may hold secrets, use variables and declare       *)
(* routes; a manifest lists packages.                                      *)
FileAt(path, dir, name, ext) ==
  [path |-> path, dir |-> dir, name |-> name, ext |-> ext, test |-> FALSE,
   secret |-> FALSE, vars |-> {}, deps |-> {}, routes |-> {}]

Env == FileAt(".env", "", ".env", ".env")
EnvExample == [FileAt(".env.example", "", ".env.example", ".example") EXCEPT !.vars = {"URL"}]
GitIgnore == FileAt(".gitignore", "", ".gitignore", ".gitignore")
Workflow == FileAt(".github/workflows/ci.yml", ".github", "ci.yml", ".yml")
Vercel == FileAt("vercel.json", "", "vercel.json", ".json")
DockerFile == FileAt("Dockerfile", "", "Dockerfile", "")
Package == [FileAt("package.json", "", "package.json", ".json") EXCEPT
              !.deps = {<<"production", "react">>, <<"dev", "vitest">>}]
Main == [FileAt("src/main.ts", "src", "main.ts", ".ts") EXCEPT !.vars = {"URL", "KEY"}]
Keys == [FileAt("src/keys.ts", "src", "keys.ts", ".ts") EXCEPT !.secret = TRUE]
TestKeys == [FileAt("src/keys.test.ts", "src", "keys.test.ts", ".ts") EXCEPT
              !.secret = TRUE, !.test = TRUE]
Routes == [FileAt("app/api/route.ts", "app", "route.ts", ".ts") EXCEPT !.routes = {"GET /api"}]
Module == [FileAt("node_modules/x/index.js", "node_modules", "index.js", ".js") EXCEPT
              !.secret = TRUE]
Catalogue == {Env, EnvExample, GitIgnore, Workflow, Vercel, DockerFile, Package, Main, Keys,
              TestKeys, Routes, Module}

Hidden == {".env", ".env.example", ".gitignore", ".github", ".vercel", ".env.sample"}
SkipDirs == {"node_modules", ".git", "dist", "build", ".next", "target", "venv", "env", ".env",
             "vendor"}
ConfigFiles == {"package.json", "vercel.json", "fly.toml", "railway.toml", "Dockerfile",
                "docker-compose.yml", ".env", ".env.example", "pyproject.toml", "Cargo.toml",
                "go.mod"}

(* Mutant: the names of skipped directories are skipped for files too.     *)
CollectFiles_byName(tree) ==
  {f \in tree : /\ {f.dir, f.name} \cap SkipDirs = {}
                /\ {f.dir, f.name} \cap Hidden \subseteq ConfigFiles}

(* A directory of SkipDirs is not entered, and a hidden entry is kept only *)
(* if it is a known configuration file.                                    *)
CollectFiles(tree) ==
  {f \in tree : /\ f.dir \notin SkipDirs
                /\ {f.dir, f.name} \cap Hidden \subseteq ConfigFiles}

-----------------------------------------------------------------------------
(* What the scanner makes of the files.  The first rung whose names meet   *)
(* those of the files decides.                                             *)
Ladder(names, rungs, otherwise) ==
  LET hits == {i \in DOMAIN rungs : rungs[i][1] \cap names # {}} IN
  IF hits = {} THEN otherwise ELSE rungs[Min(hits)][2]

Frameworks == <<
  <<{"next.config.js", "next.config.ts", "next.config.mjs"}, "Next.js">>,
  <<{"vite.config.ts", "vite.config.js"}, "Vite">>,
  <<{"svelte.config.js", "svelte.config.ts"}, "SvelteKit">>,
  <<{"nuxt.config.ts", "nuxt.config.js"}, "Nuxt">>, <<{"angular.json"}, "Angular">>,
  <<{"pyproject.toml"}, "Python">>, <<{"Cargo.toml"}, "Rust/Cargo">>, <<{"go.mod"}, "Go">> >>
PackageManagers == <<
  <<{"pnpm-workspace.yaml", "pnpm-lock.yaml"}, "pnpm">>, <<{"yarn.lock"}, "yarn">>,
  <<{"bun.lockb"}, "bun">>, <<{"package-lock.json"}, "npm">>, <<{"Cargo.lock"}, "cargo">>,
  <<{"go.sum"}, "go">> >>
DeployTargets == <<
  <<{"vercel.json"}, "Vercel">>, <<{"fly.toml"}, "Fly.io">>,
  <<{"railway.toml", "railway.json"}, "Railway">>, <<{"Dockerfile"}, "Docker">>,
  <<{"netlify.toml", "netlify.json"}, "Netlify">>, <<{"Procfile"}, "Heroku">> >>
TestFrameworks == <<
  <<{"vitest.config.ts", "vitest.config.js"}, "Vitest">>,
  <<{"jest.config.js", "jest.config.ts"}, "Jest">>,
  <<{"pytest.ini", "pyproject.toml"}, "pytest">> >>

Language(files) ==
  LET count(exts) == Cardinality({f \in files : f.ext \in exts})
      ts == count({".ts", ".tsx"})
      js == count({".js", ".jsx"})
      py == count({".py"}) IN
  IF ts > js /\ ts > py THEN "TypeScript"
  ELSE IF js > py THEN "JavaScript"
  ELSE IF py > 0 THEN "Python"
  ELSE IF count({".rs"}) > 0 THEN "Rust"
  ELSE IF count({".go"}) > 0 THEN "Go" ELSE "unknown"

DetectTechStack(files) ==
  LET names == {f.name : f \in files}
      framework == Ladder(names, Frameworks, "none") IN
  [language |-> Language(files),
   framework |-> framework,
   primary |-> CASE framework \in {"none", "Vite"} -> Language(files)
                 [] framework = "Rust/Cargo" -> "Rust"
                 [] OTHER -> framework,
   packageManager |-> Ladder(names, PackageManagers, "none"),
   deployTarget |-> Ladder(names, DeployTargets, "none"),
   testFramework |-> Ladder(names, TestFrameworks, "none")]

Root(files, name) == {f \in files : f.path = name}
CodeFiles(files) == {f \in files : f.ext \in {".ts", ".tsx", ".js", ".jsx", ".py", ".go"}}

(* The packages of the manifests at the root.                              *)
ExtractDependencies(files) ==
  UNION {f.deps : f \in UNION {Root(files, n) : n \in {"package.json", "requirements.txt",
                                                       "Cargo.toml"}}}

(* The walk finds the files in the order of the directories, which is any, *)
(* and only the first of the eligible ones are looked into.                *)
FirstOf(eligible) ==
  kSubset(IF Cardinality(eligible) < Sample THEN Cardinality(eligible) ELSE Sample, eligible)

(* A variable has an example, is found in the code, or both.               *)
ExtractEnvVars(files, sampled) ==
  LET examples == UNION {f.vars : f \in Root(files, ".env.example") \cup Root(files, ".env.sample")}
  IN {[name |-> v, example |-> v \in examples] : v \in examples \cup UNION {f.vars : f \in sampled}}

CiFiles == [p \in {"vercel.json", "fly.toml", "railway.toml", "railway.json", "Dockerfile",
                   "docker-compose.yml", "netlify.toml", ".github/workflows/ci.yml"} |->
              CASE p = "vercel.json" -> "Vercel" [] p = "fly.toml" -> "Fly.io"
                [] p \in {"railway.toml", "railway.json"} -> "Railway"
                [] p = "netlify.toml" -> "Netlify"
                [] p \in {"Dockerfile", "docker-compose.yml"} -> "Docker"
                [] OTHER -> "GithubActions"]
DetectCiConfigs(files) == {CiFiles[f.path] : f \in {g \in files : g.path \in DOMAIN CiFiles}}

RouteFiles(files) == {f \in CodeFiles(files) : f.dir = "app"}

(* .env at the root is critical, and so is every match in a source file    *)
(* that is not a test; no .gitignore is high.                              *)
SecretFiles(files) ==
  {f \in CodeFiles(files) \cup {g \in files : g.ext = ".env"} : ~f.test}

DetectSecurityHints(files, sampled) ==
  {[severity |-> "critical", kind |-> "committed-secrets", path |-> f.path] : f \in Root(files, ".env")}
  \cup {[severity |-> "critical", kind |-> "hardcoded-secret", path |-> f.path]
          : f \in {g \in sampled : g.secret}}
  \cup (IF Root(files, ".gitignore") # {} THEN {}
        ELSE {[severity |-> "high", kind |-> "missing-gitignore", path |-> ""]})

(* Every scan the order of the directories allows.                         *)
Scans(tree) ==
  LET files == CollectFiles(tree) IN
  {[files |-> files, stack |-> DetectTechStack(files), deps |-> ExtractDependencies(files),
    vars |-> ExtractEnvVars(files, inEnv), ci |-> DetectCiConfigs(files),
    routes |-> UNION {f.routes : f \in inRoutes},
    hints |-> DetectSecurityHints(files, inSecrets)]
    : inEnv \in FirstOf(CodeFiles(files)), inRoutes \in FirstOf(RouteFiles(files)),
      inSecrets \in FirstOf(SecretFiles(files))}
=============================================================================
